---- MODULE Spec2Model ----
(***************************************************************************)
(* The language-server client of temcode (src/temcode/lsp/client.py), and   *)
(* what the main window does with its diagnostics and its rename results   *)
(* (src/temcode/main_window.py).                                           *)
(*                                                                         *)
(* The state is the fields of LspClient, the server processes it spawned,  *)
(* what the latest server process has been told (the ids of the requests   *)
(* written to it, its view of the open documents, the callbacks that ran   *)
(* for its responses), and `out`, everything the last handler did, in      *)
(* order: the call, its writes, the signals emitted, the callbacks         *)
(* invoked, the processes spawned and terminated, the value returned.      *)
(*                                                                         *)
(* Every method of the client is an operator from a client record to a     *)
(* client record, so that a handler calling another method is the          *)
(* composition of the two operators.  Spec drives the client through its   *)
(* public methods and its Qt slots.  SpecWindow drives it the way the     *)
(* main window does: through the editors it has open, their debounce       *)
(* timers and the completion, definition and rename commands.              *)
(***************************************************************************)
EXTENDS Integers, Sequences, FiniteSets, TLC

VARIABLES
    process,                   \* _process: 0 is None, else the QProcess spawned
    root_path,                 \* _root_path: "" is None
    command,                   \* _command
    server_capabilities,       \* _server_capabilities
    is_ready,                  \* _is_ready
    buffer,                    \* _buffer
    expected_content_length,   \* _expected_content_length: -1 is None
    next_request_id,           \* _next_request_id
    pending_requests,          \* _pending_requests: id -> callback
    opened_document_versions,  \* _opened_document_versions: uri -> version
    pending_document_sync,     \* _pending_document_sync, in insertion order
    alive,                     \* the QProcess objects whose state() is Running
    stale,                     \* terminated by stop(), finished() not yet emitted
    spawned,                   \* how many QProcess objects were started
    requests_written,          \* ids of the requests written to the latest process
    server_docs,               \* documents as the latest process was told: uri -> version, text
    invoked,                   \* request id -> times its callback ran, latest process
    first_queued,              \* queued uris, by the first write since each entered the queue
    last_queued,               \* queued uris, by the last write
    stdout_read,               \* bytes of a stream read so far from the latest process
    dispatched,                \* the messages of that stream given to _handle_message
    lsp_diagnostics_by_path,   \* MainWindow._lsp_diagnostics_by_path: path -> diagnostics
    files,                     \* the text files on disk: path -> text
    file_disk_state,           \* MainWindow._file_disk_state: path -> the file as last seen
    workspace_root,            \* MainWindow.workspace_root: "" is None
    open_editors,              \* MainWindow._open_editors(): the files of the editors, in tab order
    editor_text,               \* editor -> editor.toPlainText()
    lsp_document_timers,       \* the editors whose debounce timer is running
    rename_dialog,             \* the editor rename_symbol is asking a new name for, "" when none
    close_dialog,              \* the editor close_workspace is asking whether to save, "" when none
    closed_editors,            \* editors of closed tabs, deleteLater() not yet carried out
    out                        \* what the last handler did, in order

vars == <<process, root_path, command, server_capabilities, is_ready, buffer,
          expected_content_length, next_request_id, pending_requests,
          opened_document_versions, pending_document_sync, alive, stale,
          spawned, requests_written, server_docs, invoked, first_queued,
          last_queued, stdout_read, dispatched, lsp_diagnostics_by_path, files,
          file_disk_state, workspace_root, open_editors, editor_text, lsp_document_timers,
          rename_dialog, close_dialog, closed_editors, out>>

(***************************************************************************)
(* Bounds of the model.                                                    *)
(***************************************************************************)
MaxRequests == 3
MaxVersion == 3
MaxSpawns == 2
MaxEdits == 2
MaxTextLen == 4

None == 0
NoLength == -1
NoPath == ""

(***************************************************************************)
(* Paths and URIs.  Two spellings of one file, and a second file.          *)
(***************************************************************************)
Getcwd == "/w1"

FilePaths == {"/w1/a.py", "a.py", "/w2/b.py"}

abspath(p) == IF p = "a.py" THEN "/w1/a.py" ELSE p

path_to_uri(path) == "file://" \o abspath(path)

uri_to_path(uri) ==
    CASE uri = "file:///w1/a.py" -> "/w1/a.py"
      [] uri = "file:///w2/b.py" -> "/w2/b.py"
      [] uri = "file:///W1/a.py" -> "/W1/a.py"
      [] OTHER -> NoPath

Uris == {path_to_uri(p) : p \in FilePaths}

Texts == {"t1", "t2"}

\* the directories ensure_started is asked for; "/nodir" is no directory
RootArgs == {"/w1", "/W1", "/w2", "/nodir"}

isdir(p) == p \in {"/w1", "/W1", "/w2"}

\* os.path.normcase on the platform the editor is built for (Windows)
normcase(p) ==
    CASE p = "/W1" -> "/w1"
      [] p = "/W1/a.py" -> "/w1/a.py"
      [] OTHER -> p

\* MainWindow._normalize_path
normalize_path(path) == normcase(abspath(path))

(***************************************************************************)
(* Dictionaries.  A dict with insertion order is a sequence of entries     *)
(* with distinct keys; a dict whose order is never read is a function.     *)
(***************************************************************************)
Keys(d) == {d[i].uri : i \in DOMAIN d}

\* the entry of an existing key is moved to the end
DictSetLast(d, uri, text, language_id) ==
    Append(SelectSeq(d, LAMBDA e : e.uri # uri),
           [uri |-> uri, text |-> text, language_id |-> language_id])

\* the entry of an existing key is left as it is
DictSetKeepsFirst(d, uri, text, language_id) ==
    IF uri \in Keys(d)
    THEN d
    ELSE Append(d, [uri |-> uri, text |-> text, language_id |-> language_id])

\* d[uri] = (text, language_id): an existing key keeps its position
DictSet(d, uri, text, language_id) ==
    IF uri \in Keys(d)
    THEN [i \in DOMAIN d |->
            IF d[i].uri = uri
            THEN [uri |-> uri, text |-> text, language_id |-> language_id]
            ELSE d[i]]
    ELSE Append(d, [uri |-> uri, text |-> text, language_id |-> language_id])

\* d.pop(uri, None)
DictPop(d, uri) == SelectSeq(d, LAMBDA e : e.uri # uri)

\* f.pop(k, None) and f[k] = v on a function with a finite domain
FnPop(f, k) == [x \in DOMAIN f \ {k} |-> f[x]]

FnSet(f, k, v) == [x \in DOMAIN f \cup {k} |-> IF x = k THEN v ELSE f[x]]

EmptyFn == [x \in {} |-> 0]

\* an assignment name = value, and the statements after it
Assigned(value, Rest(_)) == Rest(value)

(***************************************************************************)
(* JSON values.  PyNone is Python's None, which is also what               *)
(* message.get(key) gives for a missing key and for a JSON null.           *)
(***************************************************************************)
PyNone == "None"

NullResult == [t |-> "null", n |-> 0]

NoResult == [t |-> "none", n |-> 0]

\* [{} for _ in range(count)]
EmptyObjects(count) == [t |-> "list", n |-> count]

AppliedFalse == [t |-> "applied_false", n |-> 0]

NoPosition == <<0, 0>>

\* max(0, int(n))
Clamp(n) == IF n < 0 THEN 0 ELSE n

(***************************************************************************)
(* Outgoing messages, as _send_request, _send_notification and             *)
(* _send_response build them.                                              *)
(***************************************************************************)
Request(method, id, uri, position) ==
    [kind |-> "request", method |-> method, id |-> id, uri |-> uri,
     version |-> 0, text |-> "", result |-> NoResult, position |-> position]

Notification(method, uri, version, text) ==
    [kind |-> "notification", method |-> method, id |-> 0, uri |-> uri,
     version |-> version, text |-> text, result |-> NoResult, position |-> NoPosition]

Response(id, result) ==
    [kind |-> "response", method |-> "", id |-> id, uri |-> "",
     version |-> 0, text |-> "", result |-> result, position |-> NoPosition]

(***************************************************************************)
(* The client as a record, and what a handler does to it.                  *)
(***************************************************************************)
\* the environment of a machine with no server installed
NoEnv == [override |-> "", on_path |-> {}, starts |-> {}]

Client ==
    [process |-> process, root_path |-> root_path, command |-> command,
     server_capabilities |-> server_capabilities, is_ready |-> is_ready,
     buffer |-> buffer, expected_content_length |-> expected_content_length,
     next_request_id |-> next_request_id, pending_requests |-> pending_requests,
     opened_document_versions |-> opened_document_versions,
     pending_document_sync |-> pending_document_sync,
     alive |-> alive, stale |-> stale, spawned |-> spawned,
     requests_written |-> requests_written, server_docs |-> server_docs,
     invoked |-> invoked, first_queued |-> first_queued,
     last_queued |-> last_queued, stdout_read |-> stdout_read,
     dispatched |-> dispatched,
     lsp_diagnostics_by_path |-> lsp_diagnostics_by_path, files |-> files,
     file_disk_state |-> file_disk_state, workspace_root |-> workspace_root,
     open_editors |-> open_editors,
     editor_text |-> editor_text, lsp_document_timers |-> lsp_document_timers,
     rename_dialog |-> rename_dialog, close_dialog |-> close_dialog,
     closed_editors |-> closed_editors, out |-> out, ret |-> FALSE,
     env |-> NoEnv, exits_in_time |-> TRUE]

\* the uris of order that are still keys of the queue
Queued(order, pending) == SelectSeq(order, LAMBDA uri : uri \in Keys(pending))

Without(order, uri) == SelectSeq(order, LAMBDA u : u # uri)

Becomes(c) ==
    /\ process' = c.process
    /\ root_path' = c.root_path
    /\ command' = c.command
    /\ server_capabilities' = c.server_capabilities
    /\ is_ready' = c.is_ready
    /\ buffer' = c.buffer
    /\ expected_content_length' = c.expected_content_length
    /\ next_request_id' = c.next_request_id
    /\ pending_requests' = c.pending_requests
    /\ opened_document_versions' = c.opened_document_versions
    /\ pending_document_sync' = c.pending_document_sync
    /\ alive' = c.alive
    /\ stale' = c.stale
    /\ spawned' = c.spawned
    /\ requests_written' = c.requests_written
    /\ server_docs' = c.server_docs
    /\ invoked' = c.invoked
    /\ first_queued' = c.first_queued
    /\ last_queued' = c.last_queued
    /\ stdout_read' = c.stdout_read
    /\ dispatched' = c.dispatched
    /\ lsp_diagnostics_by_path' = c.lsp_diagnostics_by_path
    /\ files' = c.files
    /\ file_disk_state' = c.file_disk_state
    /\ workspace_root' = c.workspace_root
    /\ open_editors' = c.open_editors
    /\ editor_text' = c.editor_text
    /\ lsp_document_timers' = c.lsp_document_timers
    /\ rename_dialog' = c.rename_dialog
    /\ close_dialog' = c.close_dialog
    /\ closed_editors' = c.closed_editors
    /\ out' = c.out

Did(c, e) == [c EXCEPT !.out = Append(@, e)]

\* a handler starts: the log of the previous one is dropped, and so are the
\* uris that have left the queue since they were queued
Called(c, op, arg) ==
    [c EXCEPT !.out = <<[k |-> "call", op |-> op, arg |-> arg]>>,
              !.first_queued = Queued(@, c.pending_document_sync),
              !.last_queued = Queued(@, c.pending_document_sync)]

\* return value: kept in the record until the handler called from outside ends
Returned(c, value) == [c EXCEPT !.ret = value]

\* the handler called from outside ends, returning what its last return set
Ends(c) == Becomes(Did(c, [k |-> "return", value |-> c.ret]))

\* a handler that returns nothing ends
EndsVoid(c) == Becomes(c)

\* MainWindow._on_lsp_ready_changed when ready is False.  What it does when
\* ready is True is on_lsp_ready below, applied where the one emit of
\* ready_changed(True, ...) is, in on_initialize_response
on_lsp_ready_changed(c, ready, status_message) ==
    IF ~ready
    THEN [c EXCEPT !.lsp_diagnostics_by_path = EmptyFn]
    ELSE c

\* ready_changed.emit(ready, message), and the slot connected to it
ready_changed(c, ready, message) ==
    on_lsp_ready_changed(
        Did(c, [k |-> "ready_changed", ready |-> ready, message |-> message]),
        ready, message)

\* the entries of a JSON list of diagnostics; "n7" is an entry that is no object
entries_of(list) ==
    CASE list = "[d1]" -> <<"d1">>
      [] list = "[d2,n7]" -> <<"d2", "n7">>
      [] list = "[d1,d2]" -> <<"d1", "d2">>
      [] OTHER -> <<>>

\* the new list is added to the one stored
on_lsp_diagnostics_published_merging(c, uri, diagnostics_payload) ==
    LET file_path == uri_to_path(uri)
        normalized_key == normalize_path(file_path)
        stored == IF normalized_key \in DOMAIN c.lsp_diagnostics_by_path
                  THEN c.lsp_diagnostics_by_path[normalized_key] ELSE <<>>
        diagnostics == SelectSeq(entries_of(diagnostics_payload), LAMBDA entry : entry # "n7")
    IN  IF file_path = NoPath
        THEN c
        ELSE [c EXCEPT !.lsp_diagnostics_by_path =
                            FnSet(@, normalized_key, stored \o diagnostics)]

\* MainWindow._on_lsp_diagnostics_published, in a window that has no editor open
on_lsp_diagnostics_published(c, uri, diagnostics_payload) ==
    LET file_path == uri_to_path(uri)
        normalized_key == normalize_path(file_path)
        diagnostics == SelectSeq(entries_of(diagnostics_payload), LAMBDA entry : entry # "n7")
    IN  IF file_path = NoPath
        THEN c
        ELSE [c EXCEPT !.lsp_diagnostics_by_path = FnSet(@, normalized_key, diagnostics)]

\* diagnostics_published.emit(uri, diagnostics), and the slot connected to it
diagnostics_published(c, uri, diagnostics) ==
    on_lsp_diagnostics_published(
        Did(c, [k |-> "diagnostics_published", uri |-> uri, diagnostics |-> diagnostics]),
        uri, diagnostics)

\* log_message.emit(message)
log_message(c, message) == Did(c, [k |-> "log_message", message |-> message])

\* callback(result, error) runs; id is the request it was registered under,
\* 0 for a callback that was never registered
called_back(c, callback, id, result, error) ==
    Did(c, [k |-> "callback", callback |-> callback, id |-> id,
            result |-> result, error |-> error])

(***************************************************************************)
(* What the server process learns from a message written to it.            *)
(***************************************************************************)
Received(c, msg) ==
    CASE msg.kind = "request" ->
            [c EXCEPT !.requests_written = Append(@, msg.id)]
      [] msg.method \in {"textDocument/didOpen", "textDocument/didChange"} ->
            [c EXCEPT !.server_docs =
                FnSet(@, msg.uri, [version |-> msg.version, text |-> msg.text])]
      [] msg.method = "textDocument/didClose" ->
            [c EXCEPT !.server_docs = FnPop(@, msg.uri)]
      [] OTHER -> c

send_message(c, payload, target) ==
    IF target = None \/ target \notin c.alive
    THEN c
    ELSE Received(Did(c, [k |-> "write", to |-> target, msg |-> payload]), payload)

\* the id is used and not advanced
send_request_same_id(c, method, uri, position, callback) ==
    LET request_id == c.next_request_id
        c1 == [c EXCEPT !.pending_requests = FnSet(@, request_id, callback)]
    IN  send_message(c1, Request(method, request_id, uri, position), c1.process)

send_request(c, method, uri, position, callback) ==
    LET request_id == c.next_request_id
        c1 == [c EXCEPT !.next_request_id = @ + 1,
                        !.pending_requests = FnSet(@, request_id, callback)]
    IN  send_message(c1, Request(method, request_id, uri, position), c1.process)

send_notification(c, method, uri, version, text) ==
    send_message(c, Notification(method, uri, version, text), c.process)

send_response(c, request_id, result) ==
    send_message(c, Response(request_id, result), c.process)

(***************************************************************************)
(* Documents.                                                              *)
(***************************************************************************)
\* a change is sent with the version of the sync before it
open_or_change_document_same_version(c, file_path, text, language_id) ==
    LET uri == path_to_uri(abspath(file_path))
    IN  IF ~c.is_ready
        THEN Returned([c EXCEPT !.pending_document_sync =
                            DictSet(@, uri, text, language_id),
                        !.first_queued =
                            IF uri \in Keys(c.pending_document_sync)
                            THEN @ ELSE Append(Without(@, uri), uri),
                        !.last_queued = Append(Without(@, uri), uri)], FALSE)
        ELSE IF uri \notin DOMAIN c.opened_document_versions
        THEN Returned(send_notification(
                        [c EXCEPT !.opened_document_versions = FnSet(@, uri, 1)],
                        "textDocument/didOpen", uri, 1, text), TRUE)
        ELSE LET next_version == c.opened_document_versions[uri]
             IN  Returned(send_notification(
                        [c EXCEPT !.opened_document_versions = FnSet(@, uri, next_version)],
                        "textDocument/didChange", uri, next_version, text), TRUE)

open_or_change_document(c, file_path, text, language_id) ==
    LET uri == path_to_uri(abspath(file_path))
    IN  IF ~c.is_ready
        THEN Returned([c EXCEPT !.pending_document_sync =
                            DictSet(@, uri, text, language_id),
                        !.first_queued =
                            IF uri \in Keys(c.pending_document_sync)
                            THEN @ ELSE Append(Without(@, uri), uri),
                        !.last_queued = Append(Without(@, uri), uri)], FALSE)
        ELSE IF uri \notin DOMAIN c.opened_document_versions
        THEN Returned(send_notification(
                        [c EXCEPT !.opened_document_versions = FnSet(@, uri, 1)],
                        "textDocument/didOpen", uri, 1, text), TRUE)
        ELSE LET next_version == c.opened_document_versions[uri] + 1
             IN  Returned(send_notification(
                        [c EXCEPT !.opened_document_versions = FnSet(@, uri, next_version)],
                        "textDocument/didChange", uri, next_version, text), TRUE)

\* the version of a closed document is kept
close_document_keeps_version(c, file_path) ==
    LET uri == path_to_uri(file_path)
        c1 == [c EXCEPT !.pending_document_sync = DictPop(@, uri)]
    IN  IF uri \notin DOMAIN c1.opened_document_versions
        THEN c1
        ELSE IF ~c1.is_ready
             THEN c1
             ELSE send_notification(c1, "textDocument/didClose", uri, 0, "")

\* mutant of close_document: the queue entry of the document is kept
close_document_keeps_queue_entry(c, file_path) ==
    LET uri == path_to_uri(file_path)
        c1 == c
    IN  IF uri \notin DOMAIN c1.opened_document_versions
        THEN c1
        ELSE LET c2 == [c1 EXCEPT !.opened_document_versions = FnPop(@, uri)]
             IN  IF ~c2.is_ready
                 THEN c2
                 ELSE send_notification(c2, "textDocument/didClose", uri, 0, "")

close_document(c, file_path) ==
    LET uri == path_to_uri(file_path)
        c1 == [c EXCEPT !.pending_document_sync = DictPop(@, uri)]
    IN  IF uri \notin DOMAIN c1.opened_document_versions
        THEN c1
        ELSE LET c2 == [c1 EXCEPT !.opened_document_versions = FnPop(@, uri)]
             IN  IF ~c2.is_ready
                 THEN c2
                 ELSE send_notification(c2, "textDocument/didClose", uri, 0, "")

(***************************************************************************)
(* Requests.  A callback is named by the method it was passed to.          *)
(***************************************************************************)
NotReadyError == "Language server is not ready."

\* the request is sent whether the connection is ready or not
request_completion_unguarded(c, file_path, line, character, callback) ==
    Returned(send_request(c, "textDocument/completion", path_to_uri(file_path),
                          <<Clamp(line), Clamp(character)>>, callback), TRUE)

request_completion(c, file_path, line, character, callback) ==
    IF ~c.is_ready
    THEN Returned(called_back(c, callback, 0, PyNone, NotReadyError), FALSE)
    ELSE Returned(send_request(c, "textDocument/completion", path_to_uri(file_path),
                               <<Clamp(line), Clamp(character)>>, callback), TRUE)

request_definition(c, file_path, line, character, callback) ==
    IF ~c.is_ready
    THEN Returned(called_back(c, callback, 0, PyNone, NotReadyError), FALSE)
    ELSE Returned(send_request(c, "textDocument/definition", path_to_uri(file_path),
                               <<Clamp(line), Clamp(character)>>, callback), TRUE)

request_rename(c, file_path, line, character, callback) ==
    IF ~c.is_ready
    THEN Returned(called_back(c, callback, 0, PyNone, NotReadyError), FALSE)
    ELSE Returned(send_request(c, "textDocument/rename", path_to_uri(file_path),
                               <<Clamp(line), Clamp(character)>>, callback), TRUE)

(***************************************************************************)
(* Launching a server.  The environment of one ensure_started call says    *)
(* what TEMCODE_PYTHON_LSP_COMMAND holds, which programs are on the search *)
(* path and which programs start within the two seconds waited for.        *)
(***************************************************************************)
SysExecutable == "C:/Python/python.exe"

NoCapabilities == "{}"

\* shlex.split(override, posix=False); <<"ValueError">> for an unclosed quote
shlex_split(override) ==
    CASE override = "mylsp --stdio" -> <<"mylsp", "--stdio">>
      [] override = "\"mylsp" -> <<"ValueError">>
      [] OTHER -> <<>>

\* the override comes after the fixed list
python_server_candidates_override_last(env) ==
    LET override == env.override
        parsed == shlex_split(override)
        first == IF override # "" /\ parsed # <<"ValueError">> /\ parsed # <<>>
                 THEN <<parsed>> ELSE <<>>
    IN  << <<"pylsp">>,
           <<SysExecutable, "-m", "pylsp">>,
           <<"pyright-langserver", "--stdio">>,
           <<"jedi-language-server">> >> \o first

python_server_candidates(env) ==
    LET override == env.override
        parsed == shlex_split(override)
        first == IF override # "" /\ parsed # <<"ValueError">> /\ parsed # <<>>
                 THEN <<parsed>> ELSE <<>>
    IN  first \o <<
            <<"pylsp">>,
            <<SysExecutable, "-m", "pylsp">>,
            <<"pyright-langserver", "--stdio">>,
            <<"jedi-language-server">> >>

\* no program of the model is an absolute path other than sys.executable,
\* and none is named python
is_executable_candidate(program, args, env) ==
    \/ program = SysExecutable
    \/ program \in env.on_path

\* " ".join(candidate)
CommandLabel(candidate) ==
    CASE candidate = <<>> -> "unknown"
      [] candidate = <<"mylsp", "--stdio">> -> "mylsp --stdio"
      [] candidate = <<"pylsp">> -> "pylsp"
      [] candidate = <<SysExecutable, "-m", "pylsp">> -> "C:/Python/python.exe -m pylsp"
      [] candidate = <<"pyright-langserver", "--stdio">> -> "pyright-langserver --stdio"
      [] OTHER -> "jedi-language-server"

send_initialize_request(c) ==
    IF c.process = None \/ c.root_path = NoPath
    THEN c
    ELSE send_request(c, "initialize", path_to_uri(c.root_path), NoPosition,
                      "_on_initialize_response")

\* the first candidate, from index i on, that resolves and starts; 0 when none does
RECURSIVE FirstStarting(_, _, _)
FirstStarting(candidates, i, env) ==
    IF i > Len(candidates)
    THEN 0
    ELSE IF /\ is_executable_candidate(candidates[i][1], Tail(candidates[i]), env)
            /\ candidates[i][1] \in env.starts
         THEN i
         ELSE FirstStarting(candidates, i + 1, env)

start_process(c, root, env) ==
    LET candidates == python_server_candidates(env)
        c0 == IF env.override # "" /\ shlex_split(env.override) = <<"ValueError">>
              THEN log_message(c, "Invalid TEMCODE_PYTHON_LSP_COMMAND value; ignoring override.")
              ELSE c
        i == FirstStarting(candidates, 1, env)
    IN  IF i = 0
        THEN Returned(log_message(ready_changed(c0, FALSE, "server not found"),
                                  "No Python LSP server found."), FALSE)
        ELSE LET pid == c0.spawned + 1
                 c1 == Did([c0 EXCEPT !.spawned = pid, !.alive = @ \cup {pid},
                                      !.requests_written = <<>>,
                                      !.server_docs = EmptyFn,
                                      !.invoked = EmptyFn,
                                      !.stdout_read = <<>>,
                                      !.dispatched = <<>>],
                           [k |-> "spawn", pid |-> pid, root |-> root])
                 c2 == [c1 EXCEPT !.process = pid,
                                  !.root_path = root,
                                  !.command = candidates[i],
                                  !.buffer = <<>>,
                                  !.expected_content_length = NoLength,
                                  !.next_request_id = 1,
                                  !.pending_requests = EmptyFn,
                                  !.opened_document_versions = EmptyFn,
                                  !.pending_document_sync = <<>>,
                                  !.server_capabilities = NoCapabilities,
                                  !.is_ready = FALSE]
                 c3 == log_message(c2, "Starting Python LSP server")
                 c4 == send_initialize_request(c3)
             IN  Returned(ready_changed(c4, FALSE, "initializing"), TRUE)

(***************************************************************************)
(* The end of a process.  finished() reaches _on_process_finished either   *)
(* while stop() waits for the process, or later, when the QProcess that    *)
(* stop() or _on_process_finished handed to deleteLater is destroyed.      *)
(***************************************************************************)
\* process.deleteLater() on a QProcess that is still running
deleteLater(c, p) ==
    IF p \in c.alive
    THEN Did([c EXCEPT !.alive = @ \ {p}, !.stale = @ \cup {p}],
             [k |-> "terminate", pid |-> p])
    ELSE c

\* the table of document versions is left as it is
on_process_finished_keeps_versions(c) ==
    LET was_ready == c.is_ready
        c1 == [c EXCEPT !.is_ready = FALSE,
                        !.pending_requests = EmptyFn,
                        !.pending_document_sync = <<>>,
                        !.buffer = <<>>,
                        !.expected_content_length = NoLength]
        c2 == ready_changed(log_message(c1, "LSP process exited"), FALSE, "server exited")
        c3 == IF c2.process # None
              THEN [deleteLater(c2, c2.process) EXCEPT !.process = None]
              ELSE c2
    IN  IF was_ready
        THEN [c3 EXCEPT !.server_capabilities = NoCapabilities]
        ELSE c3

on_process_finished(c) ==
    LET was_ready == c.is_ready
        c1 == [c EXCEPT !.is_ready = FALSE,
                        !.pending_requests = EmptyFn,
                        !.opened_document_versions = EmptyFn,
                        !.pending_document_sync = <<>>,
                        !.buffer = <<>>,
                        !.expected_content_length = NoLength]
        c2 == ready_changed(log_message(c1, "LSP process exited"), FALSE, "server exited")
        c3 == IF c2.process # None
              THEN [deleteLater(c2, c2.process) EXCEPT !.process = None]
              ELSE c2
    IN  IF was_ready
        THEN [c3 EXCEPT !.server_capabilities = NoCapabilities]
        ELSE c3

\* terminate(), waitForFinished(1200), kill(), waitForFinished(1200), deleteLater()
terminate(c, p, exits_in_time) ==
    LET c1 == Did([c EXCEPT !.alive = @ \ {p}], [k |-> "terminate", pid |-> p])
    IN  IF exits_in_time
        THEN on_process_finished(c1)
        ELSE [c1 EXCEPT !.stale = @ \cup {p}]

\* the queue of documents is left as it is
stop_keeps_queue(c, exits_in_time) ==
    LET p == c.process
        previously_ready == c.is_ready
        c1 == [c EXCEPT !.process = None,
                        !.is_ready = FALSE,
                        !.server_capabilities = NoCapabilities,
                        !.root_path = NoPath,
                        !.command = <<>>,
                        !.pending_requests = EmptyFn,
                        !.opened_document_versions = EmptyFn,
                        !.buffer = <<>>,
                        !.expected_content_length = NoLength]
        c2 == IF previously_ready THEN ready_changed(c1, FALSE, "stopped") ELSE c1
    IN  IF p = None
        THEN c2
        ELSE IF p \in c2.alive
        THEN LET c3 == send_message(c2, Request("shutdown", c2.next_request_id, "", NoPosition), p)
                 c4 == [c3 EXCEPT !.next_request_id = @ + 1]
                 c5 == send_message(c4, Notification("exit", "", 0, ""), p)
             IN  terminate(c5, p, exits_in_time)
        ELSE c2

stop(c, exits_in_time) ==
    LET p == c.process
        previously_ready == c.is_ready
        c1 == [c EXCEPT !.process = None,
                        !.is_ready = FALSE,
                        !.server_capabilities = NoCapabilities,
                        !.root_path = NoPath,
                        !.command = <<>>,
                        !.pending_requests = EmptyFn,
                        !.opened_document_versions = EmptyFn,
                        !.pending_document_sync = <<>>,
                        !.buffer = <<>>,
                        !.expected_content_length = NoLength]
        c2 == IF previously_ready THEN ready_changed(c1, FALSE, "stopped") ELSE c1
    IN  IF p = None
        THEN c2
        ELSE IF p \in c2.alive
        THEN LET c3 == send_message(c2, Request("shutdown", c2.next_request_id, "", NoPosition), p)
                 c4 == [c3 EXCEPT !.next_request_id = @ + 1]
                 c5 == send_message(c4, Notification("exit", "", 0, ""), p)
             IN  terminate(c5, p, exits_in_time)
        ELSE c2

\* a connection to another root is replaced without being stopped
ensure_started_without_stop(c, root, env, exits_in_time) ==
    LET normalized_root == IF isdir(abspath(root)) THEN abspath(root) ELSE Getcwd
    IN  IF /\ c.process # None /\ c.process \in c.alive
           /\ c.root_path # NoPath /\ normcase(c.root_path) = normcase(normalized_root)
        THEN Returned(c, TRUE)
        ELSE start_process(c, normalized_root, env)

\* a connection is replaced whatever its root
ensure_started_always_restarts(c, root, env, exits_in_time) ==
    LET normalized_root == IF isdir(abspath(root)) THEN abspath(root) ELSE Getcwd
    IN  IF c.process # None /\ c.process \in c.alive
        THEN start_process(stop(c, exits_in_time), normalized_root, env)
        ELSE start_process(c, normalized_root, env)

ensure_started(c, root, env, exits_in_time) ==
    LET normalized_root == IF isdir(abspath(root)) THEN abspath(root) ELSE Getcwd
    IN  IF c.process # None /\ c.process \in c.alive
        THEN IF c.root_path # NoPath /\ normcase(c.root_path) = normcase(normalized_root)
             THEN Returned(c, TRUE)
             ELSE start_process(stop(c, exits_in_time), normalized_root, env)
        ELSE start_process(c, normalized_root, env)

(***************************************************************************)
(* The window: its workspace folder, its editors, the debounce timer of    *)
(* each, and the slot of ready_changed.  Every editor holds a saved Python *)
(* file below the large-file limit, which is what                          *)
(* _should_use_lsp_for_editor asks for.                                    *)
(***************************************************************************)
\* os.path.dirname of an absolute path
dirname(p) ==
    CASE p = "/w1/a.py" -> "/w1"
      [] p = "/w2/b.py" -> "/w2"
      [] OTHER -> "/"

lsp_workspace_root(c, editor) ==
    LET parent_dir == dirname(abspath(editor))
    IN  IF c.workspace_root # NoPath /\ isdir(c.workspace_root)
        THEN abspath(c.workspace_root)
        ELSE IF isdir(parent_dir) THEN parent_dir ELSE Getcwd

ensure_lsp_ready_for_editor(c, editor) ==
    ensure_started(c, lsp_workspace_root(c, editor), c.env, c.exits_in_time)

sync_editor_document_with_lsp(c, editor) ==
    Assigned(ensure_lsp_ready_for_editor(c, editor), LAMBDA c1 :
        IF ~c1.ret
        THEN c1
        ELSE open_or_change_document(c1, editor, c1.editor_text[editor], "python"))

\* every call syncs at once, whether immediate or not
schedule_lsp_document_sync_undebounced(c, editor, immediate) ==
    sync_editor_document_with_lsp(
        [c EXCEPT !.lsp_document_timers = @ \ {editor}], editor)

\* timer.stop() and the sync, or timer.start(180)
schedule_lsp_document_sync(c, editor, immediate) ==
    IF immediate
    THEN sync_editor_document_with_lsp(
            [c EXCEPT !.lsp_document_timers = @ \ {editor}], editor)
    ELSE [c EXCEPT !.lsp_document_timers = @ \cup {editor}]

\* for editor in self._open_editors(): the immediate sync of each
RECURSIVE sync_each(_, _)
sync_each(c, editors) ==
    IF editors = <<>>
    THEN c
    ELSE sync_each(schedule_lsp_document_sync(c, Head(editors), TRUE), Tail(editors))

\* MainWindow._on_lsp_ready_changed when ready is True
on_lsp_ready(c) == sync_each(c, c.open_editors)

on_editor_text_changed(c, editor) == schedule_lsp_document_sync(c, editor, FALSE)

\* the request is made without the sync before it
trigger_lsp_completion_without_sync(c, editor, position) ==
    Assigned(ensure_lsp_ready_for_editor(c, editor), LAMBDA c1 :
        IF ~c1.ret
        THEN c1
        ELSE request_completion(c1, editor, position[1], position[2], "completion"))

trigger_lsp_completion(c, editor, position) ==
    Assigned(ensure_lsp_ready_for_editor(c, editor), LAMBDA c1 :
        IF ~c1.ret
        THEN c1
        ELSE request_completion(schedule_lsp_document_sync(c1, editor, TRUE),
                                editor, position[1], position[2], "completion"))

go_to_definition(c, editor, position) ==
    Assigned(ensure_lsp_ready_for_editor(c, editor), LAMBDA c1 :
        IF ~c1.ret
        THEN c1
        ELSE request_definition(schedule_lsp_document_sync(c1, editor, TRUE),
                                editor, position[1], position[2], "definition"))

\* rename_symbol up to QInputDialog.getText, which runs an event loop
rename_symbol(c, editor) ==
    Assigned(ensure_lsp_ready_for_editor(c, editor), LAMBDA c1 :
        IF ~c1.ret
        THEN c1
        ELSE [c1 EXCEPT !.rename_dialog = editor])

\* rename_symbol from the return of the dialog on
rename_symbol_named(c, ok, position) ==
    Assigned([c EXCEPT !.rename_dialog = NoPath], LAMBDA c1 :
        IF ~ok
        THEN c1
        ELSE request_rename(schedule_lsp_document_sync(c1, c.rename_dialog, TRUE),
                            c.rename_dialog, position[1], position[2], "rename"))

(***************************************************************************)
(* Incoming messages.  A decoded JSON value is a record: whether it is a   *)
(* JSON object, and for an object its id, method, result, error and        *)
(* params members ("absent" for a member that is not there).               *)
(***************************************************************************)
NoId == [t |-> "absent", v |-> 0]

NullId == [t |-> "null", v |-> 0]

IntId(n) == [t |-> "int", v |-> n]

\* the string of the decimal digits of n
StrId(n) == [t |-> "str", v |-> n]

\* a string that is no number
WordId == [t |-> "word", v |-> 0]

\* the number n + 0.5
FloatId(n) == [t |-> "float", v |-> n]

\* message.get("id") is None
IsNone(id) == id.t \in {"absent", "null"}

\* int(message_id): ValueError for a string that is no number
int_of(id) ==
    CASE id.t \in {"int", "str", "float"} -> [ok |-> TRUE, value |-> id.v]
      [] OTHER -> [ok |-> FALSE, value |-> 0]

NoParams == [uri |-> "absent", diagnostics |-> "absent", items |-> -1, message |-> "absent"]

InMsg(id, method, result, error, params) ==
    [is_dict |-> TRUE, id |-> id, method |-> method, result |-> result,
     error |-> error, params |-> params]

NotADict ==
    [is_dict |-> FALSE, id |-> NoId, method |-> "absent", result |-> "absent",
     error |-> "absent", params |-> NoParams]

\* message.get(key)
get(member) == IF member \in {"absent", "null"} THEN PyNone ELSE member

\* isinstance(method, str): a method that is no string is "number"
IsStr(member) == member \notin {"absent", "null", "number"}

(***************************************************************************)
(* The handshake and the queue of documents.                               *)
(***************************************************************************)
RECURSIVE flush_items(_, _)
flush_items(c, pending_items) ==
    IF pending_items = <<>>
    THEN c
    ELSE LET e == Head(pending_items)
             path == uri_to_path(e.uri)
         IN  flush_items(IF path = NoPath
                         THEN c
                         ELSE open_or_change_document(c, path, e.text, e.language_id),
                         Tail(pending_items))

flush_pending_document_sync(c) ==
    IF ~c.is_ready \/ c.pending_document_sync = <<>>
    THEN c
    ELSE flush_items([c EXCEPT !.pending_document_sync = <<>>], c.pending_document_sync)

on_initialize_response(c, result, error) ==
    IF error # PyNone
    THEN ready_changed(log_message(c, "LSP initialize failed"), FALSE, "initialize failed")
    ELSE LET c1 == IF result = "capabilities"
                   THEN [c EXCEPT !.server_capabilities = "capabilities"]
                   ELSE c
             c2 == send_notification(c1, "initialized", "", 0, "")
             c3 == [c2 EXCEPT !.is_ready = TRUE]
             c4 == on_lsp_ready(
                        ready_changed(c3, TRUE, "ready (" \o CommandLabel(c3.command) \o ")"))
             c5 == log_message(c4, "LSP initialized with server")
         IN  flush_pending_document_sync(c5)

(***************************************************************************)
(* Dispatch of one decoded message.                                        *)
(***************************************************************************)
invoke(c, numeric_id, callback, result, error) ==
    LET times == IF numeric_id \in DOMAIN c.invoked THEN c.invoked[numeric_id] ELSE 0
        c1 == called_back([c EXCEPT !.invoked = FnSet(@, numeric_id, times + 1)],
                          callback, numeric_id, result, error)
    IN  IF callback = "_on_initialize_response"
        THEN on_initialize_response(c1, result, error)
        ELSE c1

\* the pending entry is read and left in place
handle_response_keeps_entry(c, message) ==
    LET parsed == int_of(message.id)
        numeric_id == IF parsed.ok THEN parsed.value ELSE -1
    IN  IF numeric_id \in DOMAIN c.pending_requests
        THEN invoke(c, numeric_id, c.pending_requests[numeric_id],
                    get(message.result),
                    IF message.error = "object" THEN message.error ELSE PyNone)
        ELSE c

handle_response(c, message) ==
    LET parsed == int_of(message.id)
        numeric_id == IF parsed.ok THEN parsed.value ELSE -1
    IN  IF numeric_id \in DOMAIN c.pending_requests
        THEN invoke([c EXCEPT !.pending_requests = FnPop(@, numeric_id)],
                    numeric_id, c.pending_requests[numeric_id],
                    get(message.result),
                    IF message.error = "object" THEN message.error ELSE PyNone)
        ELSE c

handle_message(c0, message) ==
    LET c == Did(c0, [k |-> "dispatch", message |-> message])
    IN
    IF ~message.is_dict
    THEN c
    ELSE IF ~IsNone(message.id) /\ (message.result # "absent" \/ message.error # "absent")
    THEN handle_response(c, message)
    ELSE IF ~IsStr(message.method)
    THEN c
    ELSE IF message.method = "textDocument/publishDiagnostics"
    THEN IF IsStr(message.params.uri) /\ message.params.diagnostics \notin {"null", "number"}
         THEN diagnostics_published(c, message.params.uri,
                                    IF message.params.diagnostics = "absent"
                                    THEN "[]" ELSE message.params.diagnostics)
         ELSE c
    ELSE IF message.method \in {"window/logMessage", "window/showMessage"}
    THEN IF IsStr(message.params.message) /\ message.params.message # ""
         THEN log_message(c, message.params.message)
         ELSE c
    ELSE IF IsNone(message.id)
    THEN c
    ELSE IF ~int_of(message.id).ok
    THEN c
    ELSE IF message.method = "workspace/configuration"
    THEN send_response(c, int_of(message.id).value,
                       EmptyObjects(IF message.params.items >= 0 THEN message.params.items ELSE 0))
    ELSE IF message.method \in {"client/registerCapability", "client/unregisterCapability",
                                "window/workDoneProgress/create"}
    THEN send_response(c, int_of(message.id).value, NullResult)
    ELSE IF message.method = "workspace/applyEdit"
    THEN send_response(c, int_of(message.id).value, AppliedFalse)
    ELSE send_response(c, int_of(message.id).value, NullResult)

(***************************************************************************)
(* The messages a server sends in this model.  The JSON text of            *)
(* ServerMessages[k] is "{", Content + k, "}", with the character EAcute   *)
(* before the "}" for the messages of NonAsciiMessages.                    *)
(***************************************************************************)
ServerMessages == <<
    \* 1..3: answers to the initialize request
    InMsg(IntId(1), "absent", "capabilities", "absent", NoParams),
    InMsg(IntId(1), "absent", "absent", "object", NoParams),
    InMsg(IntId(1), "absent", "absent", "string", NoParams),
    \* 4..6: answers to later requests, or to none
    InMsg(IntId(2), "absent", "value", "absent", NoParams),
    InMsg(StrId(2), "absent", "absent", "object", NoParams),
    InMsg(WordId, "absent", "value", "absent", NoParams),
    \* 7..12: requests of the server
    InMsg(IntId(7), "workspace/configuration", "absent", "absent",
          [NoParams EXCEPT !.items = 2]),
    InMsg(IntId(8), "client/registerCapability", "absent", "absent", NoParams),
    InMsg(IntId(9), "workspace/applyEdit", "absent", "absent", NoParams),
    InMsg(IntId(1), "custom/request", "absent", "absent", NoParams),
    InMsg(WordId, "workspace/configuration", "absent", "absent",
          [NoParams EXCEPT !.items = 1]),
    InMsg(StrId(7), "window/workDoneProgress/create", "absent", "absent", NoParams),
    \* 13..15: notifications
    InMsg(NoId, "textDocument/publishDiagnostics", "absent", "absent",
          [NoParams EXCEPT !.uri = "file:///w1/a.py", !.diagnostics = "[d1]"]),
    InMsg(NoId, "window/logMessage", "absent", "absent",
          [NoParams EXCEPT !.message = "hello"]),
    InMsg(NullId, "custom/notification", "absent", "absent", NoParams),
    \* 16..18: a request whose method answers as a notification, a request
    \* whose method is no string, a request with a fractional id
    InMsg(IntId(3), "window/showMessage", "absent", "absent",
          [NoParams EXCEPT !.message = "hello"]),
    InMsg(IntId(4), "number", "absent", "absent", NoParams),
    InMsg(FloatId(5), "client/unregisterCapability", "absent", "absent", NoParams),
    \* 19: a notification whose text has a character outside ASCII
    InMsg(NoId, "window/logMessage", "absent", "absent",
          [NoParams EXCEPT !.message = "text with U+00E9"]),
    \* 20..25: more diagnostics: an empty list, a list with an entry that is
    \* no object, another file, a uri that names no file, another uri of the
    \* first file, no list
    InMsg(NoId, "textDocument/publishDiagnostics", "absent", "absent",
          [NoParams EXCEPT !.uri = "file:///w1/a.py", !.diagnostics = "[]"]),
    InMsg(NoId, "textDocument/publishDiagnostics", "absent", "absent",
          [NoParams EXCEPT !.uri = "file:///w1/a.py", !.diagnostics = "[d2,n7]"]),
    InMsg(NoId, "textDocument/publishDiagnostics", "absent", "absent",
          [NoParams EXCEPT !.uri = "file:///w2/b.py", !.diagnostics = "[d1,d2]"]),
    InMsg(NoId, "textDocument/publishDiagnostics", "absent", "absent",
          [NoParams EXCEPT !.uri = "untitled:1", !.diagnostics = "[d1]"]),
    InMsg(NoId, "textDocument/publishDiagnostics", "absent", "absent",
          [NoParams EXCEPT !.uri = "file:///W1/a.py", !.diagnostics = "[d1,d2]"]),
    InMsg(NoId, "textDocument/publishDiagnostics", "absent", "absent",
          [NoParams EXCEPT !.uri = "file:///w1/a.py", !.diagnostics = "null"]),
    \* 26..29: workspace/configuration for no item, for three items, without
    \* params, and with items that is an object (-2) and no list
    InMsg(IntId(7), "workspace/configuration", "absent", "absent",
          [NoParams EXCEPT !.items = 0]),
    InMsg(IntId(7), "workspace/configuration", "absent", "absent",
          [NoParams EXCEPT !.items = 3]),
    InMsg(IntId(7), "workspace/configuration", "absent", "absent", NoParams),
    InMsg(IntId(7), "workspace/configuration", "absent", "absent",
          [NoParams EXCEPT !.items = -2]) >>

\* the messages whose JSON text has a character outside ASCII
NonAsciiMessages == {19}

(***************************************************************************)
(* Bytes.  A byte is its number; two groups of bytes that the model never  *)
(* cuts are numbers above 255: ContentLengthName is "Content-Length:" in   *)
(* any letter case, Content + k is the members of ServerMessages[k].       *)
(***************************************************************************)
CR == 13

LF == 10

Space == 32

Minus == 45

Zero == 48

OpenBrace == 123

CloseBrace == 125

InvalidUtf8 == 255

\* U+00E9, and the two bytes of it in UTF-8
EAcute == 233

Lead == 195

Trail == 169

ContentLengthName == 1000

\* a header line that does not start with content-length:
OtherHeader == 1001

Content == 2000

IsDigit(b) == b \in Zero .. Zero + 9

IsWhitespace(b) == b \in {Space, CR, LF, 9}

Min(S) == CHOOSE i \in S : \A j \in S : i <= j

\* bytes.find(b"\r\n\r\n"): the index from 0, -1 when absent
find_terminator(b) ==
    LET hits == {i \in 1 .. Len(b) - 3 :
                    b[i] = CR /\ b[i + 1] = LF /\ b[i + 2] = CR /\ b[i + 3] = LF}
    IN  IF hits = {} THEN -1 ELSE Min(hits) - 1

\* str.split("\r\n")
RECURSIVE split_crlf(_)
split_crlf(s) ==
    LET hits == {i \in 1 .. Len(s) - 1 : s[i] = CR /\ s[i + 1] = LF}
    IN  IF hits = {}
        THEN <<s>>
        ELSE <<SubSeq(s, 1, Min(hits) - 1)>> \o split_crlf(SubSeq(s, Min(hits) + 2, Len(s)))

\* str.strip()
RECURSIVE strip(_)
strip(s) ==
    IF s = <<>> THEN s
    ELSE IF IsWhitespace(s[1]) THEN strip(Tail(s))
    ELSE IF IsWhitespace(s[Len(s)]) THEN strip(SubSeq(s, 1, Len(s) - 1))
    ELSE s

RECURSIVE digits_value(_)
digits_value(d) ==
    IF d = <<>> THEN 0 ELSE 10 * digits_value(SubSeq(d, 1, Len(d) - 1)) + (d[Len(d)] - Zero)

\* int(text): ValueError unless an optional sign and digits remain after strip()
parse_int(text) ==
    LET t == strip(text)
        negative == t # <<>> /\ t[1] = Minus
        d == IF negative THEN Tail(t) ELSE t
    IN  IF d = <<>> \/ \E i \in DOMAIN d : ~IsDigit(d[i])
        THEN [ok |-> FALSE, value |-> 0]
        ELSE [ok |-> TRUE, value |-> IF negative THEN 0 - digits_value(d) ELSE digits_value(d)]

\* the header loop: the first line that starts with content-length: decides
RECURSIVE content_length_of(_)
content_length_of(lines) ==
    IF lines = <<>>
    THEN [ok |-> FALSE, value |-> 0]
    ELSE IF Head(lines) # <<>> /\ Head(lines)[1] = ContentLengthName
    THEN parse_int(Tail(Head(lines)))
    ELSE content_length_of(Tail(lines))

\* str.encode("utf-8")
RECURSIVE utf8_encode(_)
utf8_encode(text) ==
    IF text = <<>>
    THEN <<>>
    ELSE (IF Head(text) = EAcute THEN <<Lead, Trail>> ELSE <<Head(text)>>)
            \o utf8_encode(Tail(text))

\* bytes.decode("utf-8"): the text, or UnicodeDecodeError
RECURSIVE utf8_decode(_)
utf8_decode(b) ==
    IF b = <<>>
    THEN [ok |-> TRUE, text |-> <<>>]
    ELSE IF Head(b) = Lead
    THEN IF Len(b) >= 2 /\ b[2] = Trail
         THEN LET rest == utf8_decode(SubSeq(b, 3, Len(b)))
              IN  [ok |-> rest.ok, text |-> <<EAcute>> \o rest.text]
         ELSE [ok |-> FALSE, text |-> <<>>]
    ELSE IF Head(b) \in {Trail, EAcute, InvalidUtf8}
    THEN [ok |-> FALSE, text |-> <<>>]
    ELSE LET rest == utf8_decode(Tail(b))
         IN  [ok |-> rest.ok, text |-> <<Head(b)>> \o rest.text]

\* json.dumps(payload, ensure_ascii=False, separators=(",", ":")) of ServerMessages[k]
json_dumps(k) ==
    IF k \in NonAsciiMessages
    THEN <<OpenBrace, Content + k, EAcute, CloseBrace>>
    ELSE <<OpenBrace, Content + k, CloseBrace>>

\* json.loads(payload_bytes.decode("utf-8"))
json_loads(payload) ==
    LET decoded == utf8_decode(payload)
        t == strip(decoded.text)
        d == IF t # <<>> /\ t[1] = Minus THEN Tail(t) ELSE t
    IN  IF ~decoded.ok
        THEN [outcome |-> "UnicodeDecodeError", message |-> NotADict]
        ELSE IF /\ Len(t) >= 3
                /\ t[2] - Content \in DOMAIN ServerMessages
                /\ t = json_dumps(t[2] - Content)
        THEN [outcome |-> "value", message |-> ServerMessages[t[2] - Content]]
        ELSE IF /\ d # <<>> /\ \A i \in DOMAIN d : IsDigit(d[i])
                /\ (Len(d) = 1 \/ d[1] # Zero)
        THEN [outcome |-> "value", message |-> NotADict]
        ELSE [outcome |-> "JSONDecodeError", message |-> NotADict]

\* the loop of _on_stdout_ready
RECURSIVE decode(_)
decode(c) ==
    LET header_end == find_terminator(c.buffer)
        raw_headers == SubSeq(c.buffer, 1, header_end)
        content_length == content_length_of(split_crlf(raw_headers))
        c1 == IF c.expected_content_length # NoLength
              THEN c
              ELSE [c EXCEPT !.buffer = SubSeq(@, header_end + 5, Len(@)),
                             !.expected_content_length =
                                IF content_length.ok
                                THEN (IF content_length.value < 0 THEN 0 ELSE content_length.value)
                                ELSE NoLength]
        payload_bytes == SubSeq(c1.buffer, 1, c1.expected_content_length)
        c2 == [c1 EXCEPT !.buffer = SubSeq(@, c1.expected_content_length + 1, Len(@)),
                         !.expected_content_length = NoLength]
        loaded == json_loads(payload_bytes)
    IN  IF c.expected_content_length = NoLength /\ header_end < 0
        THEN c
        ELSE IF c1.expected_content_length = NoLength
        THEN decode(c1)
        ELSE IF Len(c1.buffer) < c1.expected_content_length
        THEN c1
        ELSE IF loaded.outcome = "UnicodeDecodeError"
        THEN c2
        ELSE IF loaded.outcome = "JSONDecodeError"
        THEN decode(log_message(c2, "LSP parse error"))
        ELSE decode(handle_message(c2, loaded.message))

on_stdout_ready(c, data) ==
    IF c.process = None
    THEN c
    ELSE decode([c EXCEPT !.buffer = @ \o data])

\* Content-Length: <n>\r\n\r\n and the body, as _send_message frames a payload
Frame(body) ==
    <<ContentLengthName, Space, Zero + Len(body), CR, LF, CR, LF>> \o body

\* the encoded payload of ServerMessages[k]
Body(k) == utf8_encode(json_dumps(k))

\* the length written is the number of characters of the text
encode_counting_characters(k) ==
    <<ContentLengthName, Space, Zero + Len(json_dumps(k)), CR, LF, CR, LF>> \o Body(k)

\* header + encoded of ServerMessages[k], as _send_message writes them
encode(k) == Frame(Body(k))

(***************************************************************************)
(* The inputs of the model.                                                *)
(***************************************************************************)
Positions == {<<-1, 0>>, <<2, 3>>}

Programs == {"mylsp", "pylsp", SysExecutable, "pyright-langserver", "jedi-language-server"}

\* no server installed and python itself does not start; pylsp installed;
\* an override that works; an override with an unclosed quote and python
\* -m pylsp; an override that is not installed and jedi
LaunchEnvs ==
    { [override |-> "", on_path |-> {}, starts |-> {}],
      [override |-> "", on_path |-> {"pylsp", "jedi-language-server"}, starts |-> Programs],
      [override |-> "mylsp --stdio", on_path |-> {"mylsp", "pylsp"}, starts |-> Programs],
      [override |-> "\"mylsp", on_path |-> {"pylsp"}, starts |-> {SysExecutable}],
      [override |-> "mylsp --stdio", on_path |-> {"jedi-language-server"},
       starts |-> {"jedi-language-server"}] }

\* one environment where a server starts and one where none does
PlainEnvs == {env \in LaunchEnvs : env.override = ""}

(***************************************************************************)
(* Text.  A str is the sequence of its code points.  The edit applier of   *)
(* the window (src/temcode/main_window.py) works on the text of a file.    *)
(***************************************************************************)
FormFeed == 12

LetterA == 97

LetterB == 98

LetterC == 99

LetterX == 120

\* the line boundaries of str.splitlines: "\n", "\r", "\r\n", and "\f" for
\* the boundaries that are no CR or LF (VT, FF, FS, GS, RS, NEL, LS, PS)
LineBoundaries == {LF, CR, FormFeed}

\* str.splitlines(keepends=True)
RECURSIVE splitlines(_)
splitlines(s) ==
    LET ends == {i \in 1 .. Len(s) : s[i] \in LineBoundaries}
    IN  IF s = <<>> THEN <<>>
        ELSE IF ends = {} THEN <<s>>
        ELSE LET i == Min(ends)
                 j == IF s[i] = CR /\ i < Len(s) /\ s[i + 1] = LF THEN i + 1 ELSE i
             IN  <<SubSeq(s, 1, j)>> \o splitlines(SubSeq(s, j + 1, Len(s)))

\* str.rstrip("\r\n")
RECURSIVE rstrip_crlf(_)
rstrip_crlf(s) ==
    IF s # <<>> /\ s[Len(s)] \in {CR, LF}
    THEN rstrip_crlf(SubSeq(s, 1, Len(s) - 1))
    ELSE s

RECURSIVE SumLen(_, _)
SumLen(lines, n) == IF n = 0 THEN 0 ELSE Len(lines[n]) + SumLen(lines, n - 1)

\* MainWindow._text_position_from_lsp
text_position_from_lsp(content, line, character) ==
    LET normalized_line == IF line < 0 THEN 0 ELSE line
        normalized_character == IF character < 0 THEN 0 ELSE character
    IN  Assigned(
            splitlines(content),
            LAMBDA lines :
                IF lines = <<>> THEN 0
                ELSE IF normalized_line >= Len(lines) THEN Len(content)
                ELSE Assigned(
                         Len(rstrip_crlf(lines[normalized_line + 1])),
                         LAMBDA length :
                             SumLen(lines, normalized_line)
                                 + (IF normalized_character < length
                                    THEN normalized_character ELSE length)))

\* a TextEdit of the server: range is <<start line, start character, end line,
\* end character>>, or <<>> for an edit that carries no range object
TextEdit(start_line, start_character, end_line, end_character, newText) ==
    [range |-> <<start_line, start_character, end_line, end_character>>,
     newText |-> newText]

NoRangeEdit(newText) == [range |-> <<>>, newText |-> newText]

\* sort_key of _sort_text_edits_descending
sort_key(edit) ==
    IF edit.range = <<>> THEN <<0, 0>> ELSE <<edit.range[1], edit.range[2]>>

KeyLess(a, b) == a[1] < b[1] \/ (a[1] = b[1] /\ a[2] < b[2])

\* MainWindow._sort_text_edits_descending: sorted(..., reverse=True) is stable,
\* edits of one key keep the order they were listed in
RECURSIVE sort_text_edits_descending(_)
sort_text_edits_descending(edits) ==
    IF edits = <<>> THEN <<>>
    ELSE LET n == Len(edits)
             e == edits[n]
             before == sort_text_edits_descending(SubSeq(edits, 1, n - 1))
             ahead == SelectSeq(before, LAMBDA x : ~KeyLess(sort_key(x), sort_key(e)))
             behind == SelectSeq(before, LAMBDA x : KeyLess(sort_key(x), sort_key(e)))
         IN  ahead \o <<e>> \o behind

\* the loop of _apply_text_edits_to_file over the sorted edits: the text it
\* ends with and the number of edits it applied
RECURSIVE apply_sorted_edits(_, _)
apply_sorted_edits(content, sorted_edits) ==
    IF sorted_edits = <<>> THEN [content |-> content, applied_count |-> 0]
    ELSE IF Head(sorted_edits).range = <<>>
    THEN apply_sorted_edits(content, Tail(sorted_edits))
    ELSE Assigned(
             <<text_position_from_lsp(content, Head(sorted_edits).range[1],
                                      Head(sorted_edits).range[2]),
               text_position_from_lsp(content, Head(sorted_edits).range[3],
                                      Head(sorted_edits).range[4])>>,
             LAMBDA p :
                 LET start_position == IF p[2] < p[1] THEN p[2] ELSE p[1]
                     end_position == IF p[2] < p[1] THEN p[1] ELSE p[2]
                     rest == apply_sorted_edits(
                                 SubSeq(content, 1, start_position)
                                     \o Head(sorted_edits).newText
                                     \o SubSeq(content, end_position + 1, Len(content)),
                                 Tail(sorted_edits))
                 IN  [rest EXCEPT !.applied_count = @ + 1])

\* the file of a path as the file system names it
DiskKey(file_path) == normcase(abspath(file_path))

\* MainWindow.log
log(c, text) == Did(c, [k |-> "log", text |-> text])

\* open(file_path, "w") and handle.write(content): "open" fails before the
\* file is touched, "write" after open() has truncated it
WriteErrors == {"none", "open", "write"}

\* mutant of _apply_text_edits_to_file: a failed write still counts its edits
apply_text_edits_to_file_counting_failed_write(c, file_path, edits, read_error, write_error) ==
    IF DiskKey(file_path) \notin DOMAIN c.files THEN Returned(c, 0)
    ELSE IF read_error
    THEN Returned(log(c, <<"Could not read rename target", file_path>>), 0)
    ELSE IF sort_text_edits_descending(edits) = <<>> THEN Returned(c, 0)
    ELSE Assigned(
             apply_sorted_edits(c.files[DiskKey(file_path)],
                                sort_text_edits_descending(edits)),
             LAMBDA applied :
                 IF applied.applied_count <= 0 THEN Returned(c, 0)
                 ELSE IF write_error = "open"
                 THEN Returned(log(c, <<"Could not write rename target", file_path>>),
                               applied.applied_count)
                 ELSE IF write_error = "write"
                 THEN Returned(log([c EXCEPT !.files[DiskKey(file_path)] = <<>>],
                                   <<"Could not write rename target", file_path>>),
                               applied.applied_count)
                 ELSE Returned(log([c EXCEPT !.files[DiskKey(file_path)] = applied.content],
                                   <<"Updated file from rename", file_path>>),
                               applied.applied_count))

\* MainWindow._apply_text_edits_to_file
apply_text_edits_to_file(c, file_path, edits, read_error, write_error) ==
    IF DiskKey(file_path) \notin DOMAIN c.files THEN Returned(c, 0)
    ELSE IF read_error
    THEN Returned(log(c, <<"Could not read rename target", file_path>>), 0)
    ELSE IF sort_text_edits_descending(edits) = <<>> THEN Returned(c, 0)
    ELSE Assigned(
             apply_sorted_edits(c.files[DiskKey(file_path)],
                                sort_text_edits_descending(edits)),
             LAMBDA applied :
                 IF applied.applied_count <= 0 THEN Returned(c, 0)
                 ELSE IF write_error = "open"
                 THEN Returned(log(c, <<"Could not write rename target", file_path>>),
                               0)
                 ELSE IF write_error = "write"
                 THEN Returned(log([c EXCEPT !.files[DiskKey(file_path)] = <<>>],
                                   <<"Could not write rename target", file_path>>),
                               0)
                 ELSE Returned(log([c EXCEPT !.files[DiskKey(file_path)] = applied.content],
                                   <<"Updated file from rename", file_path>>),
                               applied.applied_count))

\* MainWindow._record_file_disk_state: the text of the file stands for the
\* signature os.stat gives it
record_file_disk_state(c, file_path) ==
    IF DiskKey(file_path) \in DOMAIN c.files
    THEN [c EXCEPT !.file_disk_state =
                       FnSet(@, normalize_path(file_path), c.files[DiskKey(file_path)])]
    ELSE [c EXCEPT !.file_disk_state = FnPop(@, normalize_path(file_path))]

\* an "edits" member that is no JSON array
NotAList == "null"

\* collected.setdefault(path, []).extend(valid_edits), collected in insertion order
Extended(collected, path, valid_edits) ==
    IF \E i \in DOMAIN collected : collected[i].path = path
    THEN [i \in DOMAIN collected |->
            IF collected[i].path = path
            THEN [collected[i] EXCEPT !.edits = @ \o valid_edits]
            ELSE collected[i]]
    ELSE Append(collected, [path |-> path, edits |-> valid_edits])

\* one loop of _collect_workspace_edit_changes: entries are the items of
\* "changes", or the members of "documentChanges" that name a uri
RECURSIVE collect_entries(_, _)
collect_entries(collected, entries) ==
    IF entries = <<>> THEN collected
    ELSE LET entry == Head(entries)
             resolved_path == uri_to_path(entry.uri)
         IN  collect_entries(
                 IF entry.edits = NotAList \/ resolved_path = NoPath \/ entry.edits = <<>>
                 THEN collected
                 ELSE Extended(collected, abspath(resolved_path), entry.edits),
                 Tail(entries))

\* MainWindow._collect_workspace_edit_changes
collect_workspace_edit_changes(workspace_edit) ==
    collect_entries(collect_entries(<<>>, workspace_edit.changes),
                    workspace_edit.documentChanges)

(***************************************************************************)
(* The document of an editor.  A QTextDocument is a sequence of blocks,    *)
(* one more than the text has line feeds; a block has the text between two *)
(* line feeds and the position of its first character.  The texts of the   *)
(* editors of the model have no other line boundary than the line feed.    *)
(***************************************************************************)
\* the texts of the blocks of a document, in order
RECURSIVE blocks(_)
blocks(text) ==
    LET feeds == {i \in 1 .. Len(text) : text[i] = LF}
    IN  IF feeds = {} THEN <<text>>
        ELSE <<SubSeq(text, 1, Min(feeds) - 1)>>
                 \o blocks(SubSeq(text, Min(feeds) + 1, Len(text)))

\* block.position() of block n + 1: the blocks before it and their line feeds
RECURSIVE block_position(_, _)
block_position(bs, n) == IF n = 0 THEN 0 ELSE Len(bs[n]) + 1 + block_position(bs, n - 1)

\* MainWindow._lsp_position_to_cursor_offset: a line the document does not
\* have is taken for its last block
lsp_position_to_cursor_offset(text, line, character) ==
    LET normalized_line == IF line < 0 THEN 0 ELSE line
        normalized_character == IF character < 0 THEN 0 ELSE character
    IN  Assigned(
            blocks(text),
            LAMBDA bs :
                LET number == IF normalized_line < Len(bs) THEN normalized_line
                              ELSE Len(bs) - 1
                    line_text == bs[number + 1]
                    clamped_character == IF normalized_character < Len(line_text)
                                         THEN normalized_character ELSE Len(line_text)
                IN  block_position(bs, number) + clamped_character)

\* the loop of _apply_text_edits_to_editor over the sorted edits: the text the
\* document ends with and the number of edits applied
RECURSIVE insert_sorted_edits(_, _)
insert_sorted_edits(text, sorted_edits) ==
    IF sorted_edits = <<>> THEN [content |-> text, applied_count |-> 0]
    ELSE IF Head(sorted_edits).range = <<>>
    THEN insert_sorted_edits(text, Tail(sorted_edits))
    ELSE Assigned(
             <<lsp_position_to_cursor_offset(text, Head(sorted_edits).range[1],
                                             Head(sorted_edits).range[2]),
               lsp_position_to_cursor_offset(text, Head(sorted_edits).range[3],
                                             Head(sorted_edits).range[4])>>,
             LAMBDA p :
                 LET start_position == IF p[2] < p[1] THEN p[2] ELSE p[1]
                     end_position == IF p[2] < p[1] THEN p[1] ELSE p[2]
                     rest == insert_sorted_edits(
                                 SubSeq(text, 1, start_position)
                                     \o Head(sorted_edits).newText
                                     \o SubSeq(text, end_position + 1, Len(text)),
                                 Tail(sorted_edits))
                 IN  [rest EXCEPT !.applied_count = @ + 1])

\* the buffer is edited and synced as a key stroke is, by its timer
apply_text_edits_to_editor_debounced(c, editor, edits) ==
    IF sort_text_edits_descending(edits) = <<>> THEN Returned(c, 0)
    ELSE Assigned(
             insert_sorted_edits(c.editor_text[editor], sort_text_edits_descending(edits)),
             LAMBDA applied :
                 IF applied.applied_count > 0
                 THEN Returned(
                          on_editor_text_changed(
                              [c EXCEPT !.editor_text[editor] = applied.content],
                              editor),
                          applied.applied_count)
                 ELSE Returned(c, 0))

\* MainWindow._apply_text_edits_to_editor.  textChanged of the editor is
\* emitted when the edit block ends, and starts the timer that the immediate
\* sync stops
apply_text_edits_to_editor(c, editor, edits) ==
    IF sort_text_edits_descending(edits) = <<>> THEN Returned(c, 0)
    ELSE Assigned(
             insert_sorted_edits(c.editor_text[editor], sort_text_edits_descending(edits)),
             LAMBDA applied :
                 IF applied.applied_count > 0
                 THEN Returned(
                          schedule_lsp_document_sync(
                              on_editor_text_changed(
                                  [c EXCEPT !.editor_text[editor] = applied.content],
                                  editor),
                              editor, TRUE),
                          applied.applied_count)
                 ELSE Returned(c, 0))

\* self._open_editors_by_path.get(key): the editor of a file, NoPath for None
open_editor_by_path(c, key) ==
    IF \E i \in DOMAIN c.open_editors : normalize_path(c.open_editors[i]) = key
    THEN c.open_editors[CHOOSE i \in DOMAIN c.open_editors :
                            normalize_path(c.open_editors[i]) = key]
    ELSE NoPath

\* the loop of _apply_workspace_edit: failing[path] is what goes wrong with
\* the file of path, if anything
RECURSIVE apply_collected_changes(_, _, _)
apply_collected_changes(r, collected_changes, failing) ==
    IF collected_changes = <<>> THEN r
    ELSE LET file_path == Head(collected_changes).path
             edits == Head(collected_changes).edits
             open_editor == open_editor_by_path(r.c, normalize_path(file_path))
         IN  apply_collected_changes(
                 Assigned(
                     IF open_editor # NoPath
                     THEN apply_text_edits_to_editor(r.c, open_editor, edits)
                     ELSE apply_text_edits_to_file(
                         r.c, file_path, edits, failing[file_path] = "read",
                         IF failing[file_path] \in WriteErrors THEN failing[file_path]
                         ELSE "none"),
                     LAMBDA c :
                         IF c.ret > 0
                         THEN [c |-> record_file_disk_state(c, file_path),
                               changed_files |-> r.changed_files + 1,
                               changed_edits |-> r.changed_edits + c.ret]
                         ELSE [r EXCEPT !.c = c]),
                 Tail(collected_changes), failing)

\* MainWindow._apply_workspace_edit
apply_workspace_edit(c, workspace_edit, failing) ==
    Assigned(
        collect_workspace_edit_changes(workspace_edit),
        LAMBDA collected_changes :
            IF collected_changes = <<>> THEN Returned(c, <<0, 0>>)
            ELSE Assigned(
                     apply_collected_changes(
                         [c |-> c, changed_files |-> 0, changed_edits |-> 0],
                         collected_changes, failing),
                     LAMBDA r :
                         Returned(
                             IF r.changed_files > 0
                             THEN Did(Did(r.c, [k |-> "refresh", of |-> "file watcher paths"]),
                                      [k |-> "refresh", of |-> "git"])
                             ELSE r.c,
                             <<r.changed_files, r.changed_edits>>)))

(***************************************************************************)
(* Construction, and one action per public method and per slot.  The       *)
(* parameters of an action are the sets its inputs are drawn from.         *)
(***************************************************************************)
\* the files the workspaces hold when the window is constructed
InitialFiles ==
    [p \in {"/w1/a.py", "/w2/b.py"} |-> <<LetterA, LetterB, LF, LetterC>>]

Init ==
    /\ process = None
    /\ root_path = NoPath
    /\ command = <<>>
    /\ server_capabilities = NoCapabilities
    /\ is_ready = FALSE
    /\ buffer = <<>>
    /\ expected_content_length = NoLength
    /\ next_request_id = 1
    /\ pending_requests = EmptyFn
    /\ opened_document_versions = EmptyFn
    /\ pending_document_sync = <<>>
    /\ alive = {}
    /\ stale = {}
    /\ spawned = 0
    /\ requests_written = <<>>
    /\ server_docs = EmptyFn
    /\ invoked = EmptyFn
    /\ first_queued = <<>>
    /\ last_queued = <<>>
    /\ stdout_read = <<>>
    /\ dispatched = <<>>
    /\ lsp_diagnostics_by_path = EmptyFn
    /\ files = InitialFiles
    /\ file_disk_state = EmptyFn
    /\ workspace_root = NoPath
    /\ open_editors = <<>>
    /\ editor_text = EmptyFn
    /\ lsp_document_timers = {}
    /\ rename_dialog = NoPath
    /\ close_dialog = NoPath
    /\ closed_editors = {}
    /\ out = <<>>

EnsureStarted(roots, envs) ==
    \E root \in roots, env \in envs, exits_in_time \in BOOLEAN :
        LET c == ensure_started(Called(Client, "ensure_started", <<root, env>>),
                                root, env, exits_in_time)
        IN  /\ c.spawned <= MaxSpawns
            /\ Ends(c)

Stop ==
    \E exits_in_time \in BOOLEAN :
        EndsVoid(stop(Called(Client, "stop", <<>>), exits_in_time))

OpenOrChangeDocument ==
    \E file_path \in FilePaths, text \in Texts :
        LET c == open_or_change_document(
                    Called(Client, "open_or_change_document", <<file_path, text>>),
                    file_path, text, "python")
        IN  /\ \A uri \in DOMAIN c.opened_document_versions :
                    c.opened_document_versions[uri] <= MaxVersion
            /\ Ends(c)

CloseDocument ==
    \E file_path \in FilePaths :
        EndsVoid(close_document(Called(Client, "close_document", <<file_path>>), file_path))

RequestCompletion(paths) ==
    \E file_path \in paths, position \in Positions :
        LET c == request_completion(
                    Called(Client, "request_completion", <<file_path>>),
                    file_path, position[1], position[2], "completion")
        IN  /\ c.next_request_id <= MaxRequests + 1
            /\ Ends(c)

RequestDefinition(paths) ==
    \E file_path \in paths, position \in Positions :
        LET c == request_definition(
                    Called(Client, "request_definition", <<file_path>>),
                    file_path, position[1], position[2], "definition")
        IN  /\ c.next_request_id <= MaxRequests + 1
            /\ Ends(c)

RequestRename(paths) ==
    \E file_path \in paths, position \in Positions :
        LET c == request_rename(
                    Called(Client, "request_rename", <<file_path>>),
                    file_path, position[1], position[2], "rename")
        IN  /\ c.next_request_id <= MaxRequests + 1
            /\ Ends(c)

\* what a handler that syncs the editors of the window finds installed, and
\* whether a server it stops exits within the time waited for; neither is
\* read when no editor is open
WindowEnvs == IF open_editors = <<>> THEN {NoEnv} ELSE PlainEnvs

WindowExits == IF open_editors = <<>> THEN {TRUE} ELSE BOOLEAN

On(c, env, exits_in_time) == [c EXCEPT !.env = env, !.exits_in_time = exits_in_time]

\* the bounds of the model hold after the handler
Bounded(c) ==
    /\ c.spawned <= MaxSpawns
    /\ c.next_request_id <= MaxRequests + 1
    /\ \A uri \in DOMAIN c.opened_document_versions :
            c.opened_document_versions[uri] <= MaxVersion

\* readyReadStandardOutput of the current process, which wrote one whole
\* frame holding ServerMessages[k]
StdoutReady(messages) ==
    /\ process \in alive
    /\ \E k \in messages, env \in WindowEnvs, exits_in_time \in WindowExits :
        LET c == on_stdout_ready(
                    On(Called(Client, "_on_stdout_ready", <<k>>), env, exits_in_time),
                    encode(k))
        IN  /\ Bounded(c)
            /\ EndsVoid(c)

\* readyReadStandardOutput of the current process, which wrote the bytes data
StdoutReadyBytes(chunks) ==
    /\ process \in alive
    /\ \E data \in chunks :
        EndsVoid(on_stdout_ready(Called(Client, "_on_stdout_ready", data), data))

\* the messages a handler gave to _handle_message, in order
Dispatches(o) ==
    LET d == SelectSeq(o, LAMBDA e : e.k = "dispatch")
    IN  [i \in DOMAIN d |-> d[i].message]

\* readyReadStandardOutput of the current process, which is writing one of
\* streams and has written the next bytes of it, as many as the pipe gave
StdoutReadyChunk(streams) ==
    /\ process \in alive
    /\ \E stream \in streams :
        /\ Len(stdout_read) < Len(stream)
        /\ SubSeq(stream, 1, Len(stdout_read)) = stdout_read
        /\ \E n \in 1 .. Len(stream) - Len(stdout_read) :
            LET data == SubSeq(stream, Len(stdout_read) + 1, Len(stdout_read) + n)
                c == on_stdout_ready(Called(Client, "_on_stdout_ready", data), data)
            IN  EndsVoid([c EXCEPT !.stdout_read = @ \o data,
                                   !.dispatched = @ \o Dispatches(c.out)])

\* the current process exits by itself
ProcessFinished ==
    /\ process \in alive
    /\ EndsVoid(on_process_finished(
            [Called(Client, "_on_process_finished", <<process>>) EXCEPT !.alive = @ \ {process}]))

\* finished() of a process that stop() gave up waiting for
StaleProcessFinished ==
    \E p \in stale :
        EndsVoid(on_process_finished(
            [Called(Client, "_on_process_finished", <<p>>) EXCEPT !.stale = @ \ {p}]))

(***************************************************************************)
(* The window at work.                                                     *)
(***************************************************************************)
\* the server is stopped and every open editor synced under the new root
set_workspace_root(c, folder_path) ==
    Assigned(stop(log([c EXCEPT !.workspace_root = abspath(folder_path)],
                      <<"[workspace] Opened folder", abspath(folder_path)>>),
                  c.exits_in_time),
             LAMBDA c1 : sync_each(c1, c1.open_editors))

\* MainWindow._is_same_or_child, for the files and folders of the model
is_same_or_child(path, parent) == normcase(dirname(path)) = normcase(parent)

\* a file outside the workspace folder makes its directory the workspace
ensure_workspace_for_file(c, file_path) ==
    LET parent_dir == dirname(abspath(file_path))
    IN  IF ~isdir(parent_dir)
        THEN c
        ELSE IF /\ c.workspace_root # NoPath
                /\ is_same_or_child(abspath(file_path), c.workspace_root)
        THEN c
        ELSE set_workspace_root(c, parent_dir)

\* MainWindow.open_file of a text file that can be read, content being what
\* _read_text_file gives: the editor of a file already open is synced again
open_file(c, file_path, content) ==
    Assigned(ensure_workspace_for_file(c, file_path), LAMBDA c0 :
        Assigned(record_file_disk_state(
                    IF \E i \in DOMAIN c0.open_editors : c0.open_editors[i] = file_path
                    THEN c0
                    ELSE [c0 EXCEPT !.open_editors = Append(@, file_path),
                                    !.editor_text = FnSet(@, file_path, content)],
                    file_path),
                 LAMBDA c1 : schedule_lsp_document_sync(c1, file_path, TRUE)))

\* MainWindow._save_editor of an editor that new_file created, under the
\* path chosen in the dialog and written without failure.  An editor without
\* a path is no editor of open_editors: _should_use_lsp_for_editor refuses
\* it, and nothing else of this model reads it
save_editor(c, selected_path, text) ==
    LET absolute_target == abspath(selected_path)
    IN  IF open_editor_by_path(c, normalize_path(absolute_target)) # NoPath
        THEN Returned(c, FALSE)
        ELSE Assigned(
                 record_file_disk_state(
                     [c EXCEPT !.files = FnSet(@, DiskKey(absolute_target), text),
                               !.open_editors = Append(@, absolute_target),
                               !.editor_text = FnSet(@, absolute_target, text)],
                     absolute_target),
                 LAMBDA c1 :
                     Returned(log(schedule_lsp_document_sync(c1, absolute_target, TRUE),
                                  <<"[editor] Saved file", absolute_target>>),
                              TRUE))

(***************************************************************************)
(* Closing tabs.  _close_editor_tab hands the editor to deleteLater(): the  *)
(* editor, and the debounce timer that is its child, live until control    *)
(* returns to the event loop the handler was called from.  A modal dialog  *)
(* shown meanwhile runs an event loop of its own, in which timers expire   *)
(* and server output is read, and in which no deferred deletion is carried *)
(* out.                                                                    *)
(***************************************************************************)
\* editor.document().isModified(), for an editor that holds another text
\* than its file
isModified(c, editor) ==
    \/ DiskKey(editor) \notin DOMAIN c.files
    \/ c.editor_text[editor] # c.files[DiskKey(editor)]

\* MainWindow._close_lsp_document
close_lsp_document(c, editor) == close_document(c, editor)

\* MainWindow._close_editor_tab
close_editor_tab(c, editor) ==
    Assigned(close_lsp_document(c, editor), LAMBDA c1 :
        [c1 EXCEPT !.file_disk_state = FnPop(@, normalize_path(editor)),
                   !.open_editors = SelectSeq(@, LAMBDA e : e # editor),
                   !.closed_editors = @ \cup {editor}])

\* control returns to the event loop of the application: the editors handed
\* to deleteLater() are destroyed, and their timers with them
returns_to_event_loop(c) ==
    [c EXCEPT !.editor_text = [e \in DOMAIN @ \ c.closed_editors |-> @[e]],
              !.lsp_document_timers = @ \ c.closed_editors,
              !.closed_editors = {}]

\* MainWindow._request_close_tab, from the answer to its dialog on: nothing
\* is done before the dialog
request_close_tab(c, editor, confirmed) ==
    IF ~confirmed THEN c ELSE close_editor_tab(c, editor)

\* MainWindow._close_all_open_editors up to the next Unsaved Changes dialog:
\* the tabs are taken from the last to the first
RECURSIVE close_all_open_editors(_)
close_all_open_editors(c) ==
    IF c.open_editors = <<>> THEN Returned(c, TRUE)
    ELSE LET editor == c.open_editors[Len(c.open_editors)]
         IN  IF isModified(c, editor)
             THEN [c EXCEPT !.close_dialog = editor]
             ELSE close_all_open_editors(close_editor_tab(c, editor))

\* MainWindow.close_workspace, until a dialog is shown or to its end
close_workspace(c) ==
    Assigned(close_all_open_editors(c), LAMBDA c1 :
        IF c1.close_dialog # NoPath \/ ~c1.ret
        THEN c1
        ELSE log(stop([c1 EXCEPT !.workspace_root = NoPath,
                                 !.lsp_diagnostics_by_path = EmptyFn],
                      c1.exits_in_time),
                 IF c.workspace_root # NoPath
                 THEN <<"[workspace] Closed folder", c.workspace_root>>
                 ELSE <<"[workspace] Closed current workspace context.">>))

\* close_workspace from the answer to the dialog on: Discard closes the tab
\* and goes on with the tabs before it, Cancel gives up
close_workspace_answered(c, discard) ==
    Assigned([c EXCEPT !.close_dialog = NoPath], LAMBDA c1 :
        IF ~discard
        THEN Returned(c1, FALSE)
        ELSE close_workspace(close_editor_tab(c1, c.close_dialog)))

\* a handler called from the event loop of the application is left, unless
\* it is showing a dialog
Leaves(c) == IF c.close_dialog # NoPath THEN c ELSE returns_to_event_loop(c)

\* where the cursor of an editor is when a command is run
CursorPositions == {<<2, 3>>}

\* no modal dialog is open: the user can act on the window
NoDialog == rename_dialog = NoPath /\ close_dialog = NoPath

\* what an editor holds after a key stroke: the text of the files as they
\* are when the window is constructed, or another text
BufferTexts == {<<LetterA, LetterB, LF, LetterC>>, <<LetterX>>}

Editors == {open_editors[i] : i \in DOMAIN open_editors}

\* a file is opened from the explorer; its text is read from disk
OpenFile(paths, envs) ==
    /\ NoDialog
    /\ \E file_path \in paths, env \in envs, exits_in_time \in BOOLEAN :
        LET c == open_file(On(Called(Client, "open_file", <<file_path>>), env, exits_in_time),
                           file_path, files[DiskKey(file_path)])
        IN  /\ DiskKey(file_path) \in DOMAIN files
            /\ Bounded(c)
            /\ EndsVoid(c)

\* Save As of an untitled editor that holds text
SaveEditor(paths, envs) ==
    /\ NoDialog
    /\ \E selected_path \in paths, text \in BufferTexts, env \in envs,
          exits_in_time \in BOOLEAN :
        LET c == save_editor(
                    On(Called(Client, "_save_editor", <<selected_path, text>>),
                       env, exits_in_time),
                    selected_path, text)
        IN  /\ Bounded(c)
            /\ Ends(c)

\* the close button of a tab, and the answer where the editor is modified
RequestCloseTab ==
    /\ NoDialog
    /\ \E editor \in Editors, confirmed \in BOOLEAN :
        /\ ~isModified(Client, editor) => confirmed
        /\ EndsVoid(returns_to_event_loop(
                request_close_tab(Called(Client, "_request_close_tab", <<editor, confirmed>>),
                                  editor, confirmed)))

\* File > Close Folder
CloseWorkspace ==
    /\ NoDialog
    /\ \E exits_in_time \in BOOLEAN :
        EndsVoid(Leaves(close_workspace(
            On(Called(Client, "close_workspace", <<>>), NoEnv, exits_in_time))))

\* Discard or Cancel in the Unsaved Changes dialog of close_workspace
CloseWorkspaceAnswered ==
    /\ close_dialog # NoPath
    /\ \E discard \in BOOLEAN, exits_in_time \in BOOLEAN :
        EndsVoid(Leaves(close_workspace_answered(
            On(Called(Client, "close_workspace", <<close_dialog, discard>>),
               NoEnv, exits_in_time),
            discard)))

\* the edits a server lists for a file that is open in an editor
ApplyTextEditsToEditor(lists, envs) ==
    /\ NoDialog
    /\ \E editor \in Editors, edits \in lists, env \in envs :
        LET c == apply_text_edits_to_editor(
                     On(Called(Client, "_apply_text_edits_to_editor", <<editor, edits>>),
                        env, TRUE),
                     editor, edits)
        IN  /\ Len(c.editor_text[editor]) <= MaxTextLen
            /\ Bounded(c)
            /\ Ends(c)

\* textChanged of an editor, after a key stroke that left it holding text
EditorTextChanged ==
    /\ NoDialog
    /\ \E editor \in Editors, text \in BufferTexts :
        EndsVoid(on_editor_text_changed(
            [Called(Client, "_on_editor_text_changed", <<editor, text>>)
                EXCEPT !.editor_text = FnSet(@, editor, text)],
            editor))

\* timeout of the single-shot debounce timer of an editor
LspSyncTimeout(envs) ==
    \E editor \in lsp_document_timers, env \in envs, exits_in_time \in BOOLEAN :
        LET c == sync_editor_document_with_lsp(
                    On([Called(Client, "timeout", <<editor>>)
                            EXCEPT !.lsp_document_timers = @ \ {editor}],
                       env, exits_in_time),
                    editor)
        IN  /\ Bounded(c)
            /\ EndsVoid(c)

TriggerLspCompletion(envs) ==
    /\ NoDialog
    /\ \E editor \in Editors, position \in CursorPositions,
          env \in envs, exits_in_time \in BOOLEAN :
        LET c == trigger_lsp_completion(
                    On(Called(Client, "trigger_lsp_completion", <<editor>>), env, exits_in_time),
                    editor, position)
        IN  /\ Bounded(c)
            /\ EndsVoid(c)

GoToDefinition(envs) ==
    /\ NoDialog
    /\ \E editor \in Editors, position \in CursorPositions,
          env \in envs, exits_in_time \in BOOLEAN :
        LET c == go_to_definition(
                    On(Called(Client, "go_to_definition", <<editor>>), env, exits_in_time),
                    editor, position)
        IN  /\ Bounded(c)
            /\ EndsVoid(c)

\* rename_symbol until its dialog is shown
RenameSymbol(envs) ==
    /\ NoDialog
    /\ \E editor \in Editors, env \in envs, exits_in_time \in BOOLEAN :
        LET c == rename_symbol(
                    On(Called(Client, "rename_symbol", <<editor>>), env, exits_in_time),
                    editor)
        IN  /\ Bounded(c)
            /\ EndsVoid(c)

\* the dialog returns: accepted with a name, or not
RenameSymbolNamed(envs) ==
    /\ rename_dialog # NoPath
    /\ \E ok \in BOOLEAN, position \in CursorPositions,
          env \in envs, exits_in_time \in BOOLEAN :
        LET c == rename_symbol_named(
                    On(Called(Client, "rename_symbol", <<rename_dialog, ok>>), env, exits_in_time),
                    ok, position)
        IN  /\ Bounded(c)
            /\ EndsVoid(c)

(***************************************************************************)
(* The edit applier of the window, called by itself.                       *)
(***************************************************************************)
\* texts with every kind of line boundary, with and without a last boundary
PositionContents ==
    {<<>>, <<LetterA>>, <<LF>>, <<LetterA, LetterB, LF, LetterC>>,
     <<LetterA, LetterB, LF>>, <<LetterA, CR, LF, LetterB>>,
     <<LetterA, CR, LetterB, LF, LF>>, <<LetterA, FormFeed, LetterB>>,
     <<LetterA, LF, CR, LetterB, LetterC>>}

TextPositionFromLsp ==
    \E content \in PositionContents, line \in -1 .. 3, character \in -1 .. 4 :
        Ends(Returned(Called(Client, "_text_position_from_lsp",
                             <<content, line, character>>),
                      text_position_from_lsp(content, line, character)))

\* edits between positions inside the lines of the files and beyond their ends
RangeEdits ==
    LET EditPositions == {<<0, 1>>, <<0, 9>>, <<1, 0>>}
        NewTexts == {<<>>, <<LetterX>>}
    IN  {TextEdit(r[1][1], r[1][2], r[2][1], r[2][2], r[3]) :
            r \in {q \in EditPositions \X EditPositions \X NewTexts :
                      ~KeyLess(q[2], q[1])}}

\* what a server lists for one file: up to MaxEdits edits, in any order
EditLists ==
    UNION {[1 .. n -> RangeEdits \cup {NoRangeEdit(<<LetterX>>)}] : n \in 0 .. MaxEdits}

\* lists of insertions, also of several at one point, with texts that differ
InsertionLists ==
    LET Points == {<<0, 1>>, <<0, 9>>, <<1, 0>>}
        Insertions == {TextEdit(p[1], p[2], p[1], p[2], t) :
                          p \in Points, t \in {<<LetterX>>, <<LetterC>>}}
    IN  UNION {[1 .. n -> Insertions] : n \in 1 .. MaxEdits}

ApplyTextEditsToFile(paths, lists, read_errors, write_errors) ==
    \E file_path \in paths, edits \in lists, read_error \in read_errors,
       write_error \in write_errors :
        LET c == apply_text_edits_to_file(
                     Called(Client, "_apply_text_edits_to_file", <<file_path, edits>>),
                     file_path, edits, read_error, write_error)
        IN  /\ \A p \in DOMAIN c.files : Len(c.files[p]) <= MaxTextLen
            /\ Ends(c)

\* what a rename result can carry: for each uri its edits, under "changes"
\* and under "documentChanges"
Change(uri, edits) == [uri |-> uri, edits |-> edits]

WorkspaceEdits ==
    LET a == "file:///w1/a.py"
        b == "file:///w2/b.py"
        replace == TextEdit(0, 0, 0, 1, <<LetterX>>)
        delete == TextEdit(0, 1, 1, 0, <<>>)
    IN  {[changes |-> <<>>, documentChanges |-> <<>>],
         [changes |-> <<Change("untitled:1", <<replace>>), Change(a, NotAList)>>,
          documentChanges |-> <<Change(b, <<>>)>>],
         [changes |-> <<Change(a, <<replace>>)>>, documentChanges |-> <<>>],
         [changes |-> <<Change(a, <<NoRangeEdit(<<LetterX>>)>>)>>, documentChanges |-> <<>>],
         [changes |-> <<Change(a, <<replace>>), Change(b, <<delete, replace>>)>>,
          documentChanges |-> <<>>],
         [changes |-> <<Change(b, <<replace>>)>>,
          documentChanges |-> <<Change(a, <<delete>>), Change(b, <<NoRangeEdit(<<>>)>>)>>]}

\* for each file, whether reading or writing it fails
Failings == [{"/w1/a.py", "/w2/b.py"} -> {"none", "read"} \cup WriteErrors]

ApplyWorkspaceEdit ==
    \E workspace_edit \in WorkspaceEdits, failing \in Failings :
        Ends(apply_workspace_edit(
                 Called(Client, "_apply_workspace_edit", <<workspace_edit, failing>>),
                 workspace_edit, failing))

\* MainWindow._apply_rename_result for a result that is an object and no error
apply_rename_result(c, result, failing) ==
    Assigned(apply_workspace_edit(c, result, failing), LAMBDA c1 :
        IF c1.ret[1] <= 0
        THEN c1
        ELSE log(c1, <<"[lsp] Rename applied", c1.ret[2], c1.ret[1]>>))

\* edits of a rename result for the files of the model, read and written
\* without failure
RenameResults ==
    {w \in WorkspaceEdits : \A i \in DOMAIN w.changes : w.changes[i].edits # NotAList}

NotFailing == [p \in {"/w1/a.py", "/w2/b.py"} |-> "none"]

\* the callback of a rename request runs with the result of the server: the
\* request was written to this connection when it was ready, and the
\* connection has lived since
ApplyRenameResult(envs) ==
    /\ is_ready
    /\ process \in alive
    /\ NoDialog
    /\ \E result \in RenameResults, env \in envs, exits_in_time \in BOOLEAN :
        LET c == apply_rename_result(
                    On(Called(Client, "_apply_rename_result", <<result>>), env, exits_in_time),
                    result, NotFailing)
        IN  /\ Bounded(c)
            /\ \A e \in DOMAIN c.editor_text : Len(c.editor_text[e]) <= MaxTextLen
            /\ EndsVoid(c)

(***************************************************************************)
(* Spec: the connection and its requests.                                  *)
(***************************************************************************)
Next ==
    \/ EnsureStarted(RootArgs, LaunchEnvs)
    \/ Stop
    \/ RequestCompletion({"/w1/a.py"})
    \/ RequestDefinition({"/w1/a.py"})
    \/ RequestRename({"/w1/a.py"})
    \/ StdoutReady({1, 2, 3, 4, 5, 7})
    \/ ProcessFinished
    \/ StaleProcessFinished

Spec == Init /\ [][Next]_vars

(***************************************************************************)
(* SpecDocs: the connection and its documents.                             *)
(***************************************************************************)
NextDocs ==
    \/ EnsureStarted({"/w1", "/w2"}, PlainEnvs)
    \/ Stop
    \/ OpenOrChangeDocument
    \/ CloseDocument
    \/ StdoutReady({1, 2, 3})
    \/ ProcessFinished
    \/ StaleProcessFinished

SpecDocs == Init /\ [][NextDocs]_vars

(***************************************************************************)
(* SpecDispatch: one connection and every message of ServerMessages.       *)
(***************************************************************************)
NextDispatch ==
    \/ EnsureStarted({"/w1"}, PlainEnvs)
    \/ RequestCompletion({"/w1/a.py", "/w2/b.py"})
    \/ StdoutReady(DOMAIN ServerMessages)

SpecDispatch == Init /\ [][NextDispatch]_vars

(***************************************************************************)
(* SpecCodec: one connection whose server also writes frames with no       *)
(* usable Content-Length: a head with another header only, and a head      *)
(* whose length is no number, each followed by a body.                     *)
(***************************************************************************)
BadFrames ==
    { <<OtherHeader, CR, LF, CR, LF>> \o Body(4),
      <<ContentLengthName, Space, 120, CR, LF, CR, LF>> \o Body(4),
      <<OtherHeader, CR, LF, CR, LF>> }

NextCodec ==
    \/ EnsureStarted({"/w1"}, PlainEnvs)
    \/ RequestCompletion({"/w1/a.py"})
    \/ StdoutReady({1, 4, 7, 13, 19})
    \/ StdoutReadyBytes(BadFrames)

SpecCodec == Init /\ [][NextCodec]_vars

(***************************************************************************)
(* SpecChunks: one connection whose server writes a stream of frames that  *)
(* reaches the client in pieces of any length: two messages, a message     *)
(* after a body that is no JSON, after a body that is no UTF-8, and after  *)
(* a head without Content-Length.                                          *)
(***************************************************************************)
NotJson == <<OpenBrace>>

NotUtf8 == <<OpenBrace, InvalidUtf8, CloseBrace>>

Streams ==
    { encode(19) \o encode(7),
      Frame(NotJson) \o encode(13),
      Frame(NotUtf8) \o encode(13),
      <<OtherHeader, CR, LF, CR, LF>> \o encode(14) }

NextChunks ==
    \/ EnsureStarted({"/w1"}, PlainEnvs)
    \/ StdoutReadyChunk(Streams)

SpecChunks == Init /\ [][NextChunks]_vars

(***************************************************************************)
(* SpecDiagnostics: the connection and the diagnostics its server          *)
(* publishes to the window.                                                *)
(***************************************************************************)
NextDiagnostics ==
    \/ EnsureStarted({"/w1", "/w2"}, PlainEnvs)
    \/ Stop
    \/ StdoutReady({1, 13, 20, 21, 22, 23, 24, 25})
    \/ ProcessFinished
    \/ StaleProcessFinished

SpecDiagnostics == Init /\ [][NextDiagnostics]_vars

(***************************************************************************)
(* SpecWindow and SpecEditors: the window, its editors and its connection. *)
(***************************************************************************)
\* one file, its editor and the commands run in it
NextWindow ==
    \/ OpenFile({"/w1/a.py"}, PlainEnvs)
    \/ EditorTextChanged
    \/ LspSyncTimeout(PlainEnvs)
    \/ TriggerLspCompletion(PlainEnvs)
    \/ GoToDefinition(PlainEnvs)
    \/ RenameSymbol(PlainEnvs)
    \/ RenameSymbolNamed(PlainEnvs)
    \/ StdoutReady({1})
    \/ ProcessFinished

SpecWindow == Init /\ [][NextWindow]_vars

\* two files in two directories, the editors of both and their timers
NextEditors ==
    \/ OpenFile({"/w1/a.py", "/w2/b.py"}, PlainEnvs)
    \/ EditorTextChanged
    \/ LspSyncTimeout(PlainEnvs)
    \/ StdoutReady({1})
    \/ ProcessFinished
    \/ StaleProcessFinished

SpecEditors == Init /\ [][NextEditors]_vars

(***************************************************************************)
(* SpecFolders: a window that was given no folder, with untitled editors   *)
(* saved into two directories.                                             *)
(***************************************************************************)
NextFolders ==
    \/ SaveEditor({"/w1/a.py", "/w2/b.py"}, PlainEnvs)
    \/ EditorTextChanged
    \/ LspSyncTimeout(PlainEnvs)
    \/ StdoutReady({1})
    \/ ProcessFinished

SpecFolders == Init /\ [][NextFolders]_vars

(***************************************************************************)
(* SpecTabs: two files, their editors and timers, and the closing of tabs  *)
(* one by one and all at once, on a machine where a server is installed.   *)
(***************************************************************************)
InstalledEnvs == {env \in PlainEnvs : env.starts # {}}

NextTabs ==
    \/ OpenFile({"/w1/a.py", "/w2/b.py"}, InstalledEnvs)
    \/ EditorTextChanged
    \/ LspSyncTimeout(InstalledEnvs)
    \/ RequestCloseTab
    \/ CloseWorkspace
    \/ CloseWorkspaceAnswered
    \/ StdoutReady({1})

SpecTabs == Init /\ [][NextTabs]_vars

(***************************************************************************)
(* SpecRename: the window with the editor of one file, and the results of  *)
(* rename requests applied to the editor and to the file that is not open. *)
(***************************************************************************)
NextRename ==
    \/ OpenFile({"/w1/a.py"}, PlainEnvs)
    \/ EditorTextChanged
    \/ LspSyncTimeout(PlainEnvs)
    \/ StdoutReady({1})
    \/ ApplyRenameResult(PlainEnvs)
    \/ ProcessFinished

SpecRename == Init /\ [][NextRename]_vars

(***************************************************************************)
(* SpecPositions: the positions of a server, resolved in a text.           *)
(***************************************************************************)
NextPositions == TextPositionFromLsp

SpecPositions == Init /\ [][NextPositions]_vars

(***************************************************************************)
(* SpecEdits: the edits a server lists for a file, applied to the file.    *)
(***************************************************************************)
NextEdits ==
    ApplyTextEditsToFile({"/w1/a.py", "/nodir/x.py"}, EditLists, {FALSE}, {"none"})

SpecEdits == Init /\ [][NextEdits]_vars

(***************************************************************************)
(* SpecInsertions: SpecEdits with lists of insertions as well.             *)
(***************************************************************************)
NextInsertions ==
    ApplyTextEditsToFile({"/w1/a.py"}, EditLists \cup InsertionLists, {FALSE}, {"none"})

SpecInsertions == Init /\ [][NextInsertions]_vars

(***************************************************************************)
(* SpecBuffers: the edits a server lists for a file, applied to the editor *)
(* that has the file open, on a machine with no server to sync with.       *)
(***************************************************************************)
ServerlessEnvs == {env \in PlainEnvs : env.starts = {}}

NextBuffers ==
    \/ OpenFile({"/w1/a.py"}, ServerlessEnvs)
    \/ EditorTextChanged
    \/ ApplyTextEditsToEditor(EditLists, ServerlessEnvs)

SpecBuffers == Init /\ [][NextBuffers]_vars

(***************************************************************************)
(* SpecWorkspaceEdit: the workspace edits of rename results, applied to    *)
(* the files of the workspace.                                             *)
(***************************************************************************)
NextWorkspaceEdit == ApplyWorkspaceEdit

SpecWorkspaceEdit == Init /\ [][NextWorkspaceEdit]_vars

(***************************************************************************)
(* What the last handler did, read from out.                               *)
(***************************************************************************)
Ran(o, op) == o # <<>> /\ o[1].k = "call" /\ o[1].op = op

Writes(o) == SelectSeq(o, LAMBDA e : e.k = "write")

\* the message of the whole frame the last _on_stdout_ready was given
Handled(o) == ServerMessages[o[1].arg[1]]

RanStdout(o) == Ran(o, "_on_stdout_ready") /\ Len(o[1].arg) = 1

Count(o, P(_)) == Cardinality({i \in DOMAIN o : P(o[i])})

IsResponseShape(m) ==
    m.is_dict /\ ~IsNone(m.id) /\ (m.result # "absent" \/ m.error # "absent")

(***************************************************************************)
(* C1.  Every incoming message that has both a method and an id, whatever  *)
(* the method and whatever the id, makes the client write exactly one      *)
(* response that carries that same id.                                     *)
(***************************************************************************)
C1_EveryServerRequestAnswered ==
    RanStdout(out) =>
        LET m == Handled(out)
        IN  (m.is_dict /\ m.method # "absent" /\ ~IsNone(m.id)) =>
                Count(out, LAMBDA e : /\ e.k = "write"
                                      /\ e.msg.kind = "response"
                                      /\ IntId(e.msg.id) = m.id) = 1

(***************************************************************************)
(* C3.  After a frame whose head has no usable Content-Length, a           *)
(* well-formed frame that follows it on the stream is still decoded and    *)
(* dispatched: the handler that receives the whole well-formed frame       *)
(* dispatches its message.                                                 *)
(***************************************************************************)
C3_WellFormedFrameDispatched ==
    RanStdout(out) =>
        Count(out, LAMBDA e : e.k = "dispatch" /\ e.message = Handled(out)) = 1

(***************************************************************************)
(* C4.  The ids of the requests written to one process are 1, 2, ..., N in *)
(* this order, whatever notifications and responses are written between    *)
(* them, and a handler that spawns a process leaves it with exactly the    *)
(* initialize request, whose id is 1.                                      *)
(***************************************************************************)
C4_RequestIdsCountFromOne ==
    /\ \A i \in DOMAIN requests_written : requests_written[i] = i
    /\ (\E i \in DOMAIN out : out[i].k = "spawn") =>
            /\ requests_written = <<1>>
            /\ Count(out, LAMBDA e : /\ e.k = "write"
                                     /\ e.to = process
                                     /\ e.msg.kind = "request"
                                     /\ e.msg.method = "initialize"
                                     /\ e.msg.id = 1) = 1

\* a second process that was sent a request after its initialize request,
\* while notifications and responses were written to it as well
C4_Witness ==
    /\ spawned = 2
    /\ process = 2
    /\ requests_written = <<1, 2>>
    /\ RanStdout(out)
    /\ Count(out, LAMBDA e : e.k = "write" /\ e.msg.kind = "response") = 1

(***************************************************************************)
(* C5.  A callback registered under a request id runs at most once: the    *)
(* first response whose id converts to a pending id removes the entry and  *)
(* runs its callback, once; a response whose id converts to no pending id  *)
(* (never registered, or consumed already) runs no callback and changes    *)
(* nothing in the client.                                                  *)
(***************************************************************************)
ClientFields ==
    <<process, root_path, command, server_capabilities, is_ready, buffer,
      expected_content_length, next_request_id, pending_requests,
      opened_document_versions, pending_document_sync>>

Observed == <<alive, stale, spawned, requests_written, server_docs, invoked>>

NumericId(m) == IF int_of(m.id).ok THEN int_of(m.id).value ELSE -1

C5_ResponseStep ==
    (RanStdout(out') /\ IsResponseShape(Handled(out'))) =>
        LET n == NumericId(Handled(out'))
        IN  IF n \in DOMAIN pending_requests
            THEN /\ n \notin DOMAIN pending_requests'
                 /\ Count(out', LAMBDA e : e.k = "callback") = 1
                 /\ Count(out', LAMBDA e : /\ e.k = "callback"
                                           /\ e.id = n
                                           /\ e.callback = pending_requests[n]) = 1
            ELSE /\ Count(out', LAMBDA e : e.k = "callback") = 0
                 /\ UNCHANGED <<ClientFields, Observed>>

RequestOps == {"request_completion", "request_definition", "request_rename"}

CallbackOf(op) ==
    CASE op = "request_completion" -> "completion"
      [] op = "request_definition" -> "definition"
      [] OTHER -> "rename"

C9_Step ==
    \A op \in RequestOps :
        (Ran(out', op) /\ ~is_ready) =>
            /\ Len(out') = 3
            /\ out'[2] = [k |-> "callback", callback |-> CallbackOf(op), id |-> 0,
                          result |-> PyNone, error |-> NotReadyError]
            /\ out'[3] = [k |-> "return", value |-> FALSE]
            /\ UNCHANGED <<ClientFields, Observed>>

C9_NotReadyRequestFailsFast == [][C9_Step]_vars

\* a request made while the handshake is still running
C9_Witness ==
    /\ Ran(out, "request_completion")
    /\ ~is_ready
    /\ process \in alive
    /\ 1 \in DOMAIN pending_requests
    /\ Len(out) = 3
    /\ out[2].k = "callback"

(***************************************************************************)
(* C10.  No process other than the current one is left running, and a      *)
(* handler that spawns a process while another one is connected has, by    *)
(* then, stopped that one: its shutdown and exit are written, it is        *)
(* terminated and "stopped" is emitted before the spawn, and what is left  *)
(* in the client afterwards is the new connection alone.                   *)
(***************************************************************************)
Index(o, P(_)) == {i \in DOMAIN o : P(o[i])}

C10_Step ==
    (process \in alive /\ \E j \in DOMAIN out' : out'[j].k = "spawn") =>
        \A j \in Index(out', LAMBDA e : e.k = "spawn") :
            /\ \E i \in 1 .. j - 1 : out'[i] = [k |-> "terminate", pid |-> process]
            /\ \A i \in Index(out', LAMBDA e : e.k = "write") :
                    out'[i].to = process => i < j
            /\ is_ready => \E i \in 1 .. j - 1 :
                    out'[i] = [k |-> "ready_changed", ready |-> FALSE, message |-> "stopped"]
            /\ process' = out'[j].pid
            /\ ~is_ready'
            /\ DOMAIN pending_requests' = {1}
            /\ opened_document_versions' = EmptyFn
            /\ pending_document_sync' = <<>>
            /\ buffer' = <<>>

C10_OneLiveConnection ==
    /\ [](alive \subseteq {process} /\ Cardinality(alive) <= 1)
    /\ [][C10_Step]_vars

\* ensure_started for another root replaced a ready connection
C10_Witness ==
    /\ Ran(out, "ensure_started")
    /\ \E i, j \in DOMAIN out :
        /\ i < j
        /\ out[i] = [k |-> "ready_changed", ready |-> FALSE, message |-> "stopped"]
        /\ out[j].k = "spawn"
        /\ out[j].pid = 2
    /\ alive = {2}

(***************************************************************************)
(* The document notifications of a handler, in the order written.          *)
(***************************************************************************)
SyncMethods == {"textDocument/didOpen", "textDocument/didChange"}

DocMethods == SyncMethods \cup {"textDocument/didClose"}

DocWrites(o) == SelectSeq(o, LAMBDA e : e.k = "write" /\ e.msg.method \in DocMethods)

UrisOf(ws) == [i \in DOMAIN ws |-> ws[i].msg.uri]

BecameReady(o) ==
    \E i \in DOMAIN o : o[i].k = "ready_changed" /\ o[i].ready

\* what the process written to knew of the documents before the handler
KnownBefore(o) ==
    IF \E i \in DOMAIN o : o[i].k = "spawn" THEN EmptyFn ELSE server_docs

AfterWrite(docs, m) ==
    IF m.method \in SyncMethods
    THEN FnSet(docs, m.uri, [version |-> m.version, text |-> m.text])
    ELSE FnPop(docs, m.uri)

RECURSIVE VersionsCountUp(_, _)
VersionsCountUp(docs, ws) ==
    \/ ws = <<>>
    \/ LET m == Head(ws).msg
       IN  /\ m.method = "textDocument/didOpen" => m.version = 1
           /\ m.method = "textDocument/didChange" =>
                    /\ m.uri \in DOMAIN docs
                    /\ m.version = docs[m.uri].version + 1
           /\ VersionsCountUp(AfterWrite(docs, m), Tail(ws))

C6_Step ==
    /\ VersionsCountUp(KnownBefore(out'), DocWrites(out'))
    /\ (Ran(out', "open_or_change_document") /\ is_ready) =>
            LET uri == path_to_uri(out'[1].arg[1])
                written == Writes(out')
            IN  /\ Len(written) = 1
                /\ written[1].to = process
                /\ written[1].msg.uri = uri
                /\ written[1].msg.text = out'[1].arg[2]
                /\ written[1].msg.method =
                        IF uri \in DOMAIN server_docs
                        THEN "textDocument/didChange" ELSE "textDocument/didOpen"
                /\ out'[Len(out')] = [k |-> "return", value |-> TRUE]

C6_VersionsCountFromOne == [][C6_Step]_vars

\* the second change of a document, on a connection that has two open
C6_Witness ==
    /\ Ran(out, "open_or_change_document")
    /\ Len(Writes(out)) = 1
    /\ Writes(out)[1].msg.method = "textDocument/didChange"
    /\ Writes(out)[1].msg.version = 3
    /\ DOMAIN server_docs = {"file:///w1/a.py", "file:///w2/b.py"}

(***************************************************************************)
(* C7.  The notifications written to one process for one document are      *)
(* didOpen, any number of didChange, didClose, and so on again: a didOpen  *)
(* is written only for a document the process does not have open, a        *)
(* didChange or didClose only for one it has.                              *)
(***************************************************************************)
RECURSIVE FollowsLifecycle(_, _)
FollowsLifecycle(docs, ws) ==
    \/ ws = <<>>
    \/ LET m == Head(ws).msg
       IN  /\ m.method = "textDocument/didOpen" <=> m.uri \notin DOMAIN docs
           /\ FollowsLifecycle(AfterWrite(docs, m), Tail(ws))

C7_Step ==
    /\ \A i \in DOMAIN DocWrites(out') : DocWrites(out')[i].to = process'
    /\ FollowsLifecycle(KnownBefore(out'), DocWrites(out'))

C7_DocumentLifecycle == [][C7_Step]_vars

\* a document is closed on a connection that has another one open
C7_Witness ==
    /\ Ran(out, "close_document")
    /\ Len(Writes(out)) = 1
    /\ Writes(out)[1].msg.method = "textDocument/didClose"
    /\ Writes(out)[1].msg.uri = "file:///w1/a.py"
    /\ DOMAIN server_docs = {"file:///w2/b.py"}
    /\ DOMAIN opened_document_versions = {"file:///w2/b.py"}

(***************************************************************************)
(* C8.  A response to the initialize request that carries an error does    *)
(* not make the connection ready: the connection stays not ready, the      *)
(* readiness event "initialize failed" is emitted, no initialized          *)
(* notification is written and the queue of documents is left as it is.    *)
(***************************************************************************)
C8_Step ==
    (/\ RanStdout(out')
     /\ IsResponseShape(Handled(out'))
     /\ get(Handled(out').error) # PyNone
     /\ NumericId(Handled(out')) \in DOMAIN pending_requests
     /\ pending_requests[NumericId(Handled(out'))] = "_on_initialize_response") =>
        /\ ~is_ready'
        /\ \E i \in DOMAIN out' :
                out'[i] = [k |-> "ready_changed", ready |-> FALSE,
                           message |-> "initialize failed"]
        /\ Writes(out') = <<>>
        /\ UNCHANGED pending_document_sync

C8_InitializeErrorNeverReady == [][C8_Step]_vars

(***************************************************************************)
(* C11.  When stop() returns, whatever state it was called in, the client  *)
(* is not ready and has no process, no pending request, no document        *)
(* version, no queued document and an empty receive buffer.  Called on a   *)
(* client in the state stop() leaves, it changes nothing, writes nothing   *)
(* and emits nothing.                                                      *)
(***************************************************************************)
Stopped ==
    /\ process = None
    /\ ~is_ready
    /\ pending_requests = EmptyFn
    /\ opened_document_versions = EmptyFn
    /\ pending_document_sync = <<>>
    /\ buffer = <<>>
    /\ expected_content_length = NoLength

AsStopLeavesIt ==
    /\ Stopped
    /\ root_path = NoPath
    /\ command = <<>>
    /\ server_capabilities = NoCapabilities

C11_Step ==
    Ran(out', "stop") =>
        /\ Stopped'
        /\ AsStopLeavesIt =>
                /\ UNCHANGED <<ClientFields, Observed>>
                /\ out' = <<[k |-> "call", op |-> "stop", arg |-> <<>>]>>

C11_StopClearsEverything == [][C11_Step]_vars

\* stop() on a ready connection with an open document, which it told to
\* shut down and terminated
C11_Witness ==
    /\ Ran(out, "stop")
    /\ Stopped
    /\ DOMAIN server_docs = {"file:///w1/a.py"}
    /\ \E i, j \in DOMAIN out :
        /\ i < j
        /\ out[i] = [k |-> "ready_changed", ready |-> FALSE, message |-> "stopped"]
        /\ out[j].k = "write"
        /\ out[j].msg.method = "shutdown"
    /\ \E i \in DOMAIN out : out[i].k = "terminate"

(***************************************************************************)
(* C12.  When the running process exits by itself, the client is left as   *)
(* stop() leaves it: not ready, no process, no pending request, no         *)
(* document version, no queued document, an empty receive buffer, no       *)
(* capabilities, no root path and no command.  The readiness event         *)
(* "server exited" is emitted and no process is spawned.                   *)
(***************************************************************************)
C12_Step ==
    (Ran(out', "_on_process_finished") /\ process # None /\ out'[1].arg = <<process>>) =>
        /\ AsStopLeavesIt'
        /\ \E i \in DOMAIN out' :
                out'[i] = [k |-> "ready_changed", ready |-> FALSE, message |-> "server exited"]
        /\ \A i \in DOMAIN out' : out'[i].k # "spawn"
        /\ spawned' = spawned
        /\ alive' = {}

C12_ExitResetsLikeStop == [][C12_Step]_vars

(***************************************************************************)
(* C13.  However the bytes of a stream of frames are cut into reads, the   *)
(* decoder has given _handle_message the same messages, and is left with   *)
(* the same receive buffer and the same expected length, as when the bytes *)
(* read so far arrive in one read on a new connection.                     *)
(***************************************************************************)
InOneRead ==
    on_stdout_ready([Client EXCEPT !.buffer = <<>>,
                                   !.expected_content_length = NoLength,
                                   !.out = <<>>],
                    stdout_read)

C13_ChunkingMakesNoDifference ==
    (process \in alive /\ stdout_read # <<>>) =>
        /\ dispatched = Dispatches(InOneRead.out)
        /\ buffer = InOneRead.buffer
        /\ expected_content_length = InOneRead.expected_content_length

(***************************************************************************)
(* C14.  The frame of a payload declares, as its Content-Length, the       *)
(* number of bytes of the encoded payload, and a decoder that awaits a     *)
(* header with an empty buffer and reads the frame gives _handle_message   *)
(* that payload, once, and is left awaiting a header with an empty buffer. *)
(***************************************************************************)
DeclaredLength(frame) ==
    content_length_of(split_crlf(SubSeq(frame, 1, find_terminator(frame))))

AfterHead(frame) == SubSeq(frame, find_terminator(frame) + 5, Len(frame))

C14_Step ==
    (RanStdout(out') /\ buffer = <<>> /\ expected_content_length = NoLength) =>
        LET k == out'[1].arg[1]
        IN  /\ DeclaredLength(encode(k)) = [ok |-> TRUE, value |-> Len(AfterHead(encode(k)))]
            /\ AfterHead(encode(k)) = utf8_encode(json_dumps(k))
            /\ Dispatches(out') = <<ServerMessages[k]>>
            /\ buffer' = <<>>
            /\ expected_content_length' = NoLength

C14_DecodeInvertsEncode == [][C14_Step]_vars

\* the frame of a payload whose text is shorter than its bytes was read
C14_Witness ==
    /\ RanStdout(out)
    /\ out[1].arg = <<19>>
    /\ Len(json_dumps(19)) < Len(Body(19))
    /\ Dispatches(out) = <<ServerMessages[19]>>
    /\ buffer = <<>>
    /\ expected_content_length = NoLength

(***************************************************************************)
(* C15.  A read that brings a whole frame whose body is no valid JSON,     *)
(* followed by a whole frame of a message, reports one parse error, gives  *)
(* the body that is no JSON to no handler, and gives the message that      *)
(* follows to _handle_message in that same read.                           *)
(***************************************************************************)
BrokenBodies == {NotJson, NotUtf8}

C15_Step ==
    \A body \in BrokenBodies :
        (/\ Ran(out', "_on_stdout_ready")
         /\ buffer = <<>>
         /\ expected_content_length = NoLength
         /\ out'[1].arg = Frame(body) \o encode(13)) =>
            /\ Count(out', LAMBDA e : e.k = "log_message" /\ e.message = "LSP parse error") = 1
            /\ Dispatches(out') = <<ServerMessages[13]>>
            /\ Count(out', LAMBDA e : e.k = "callback") = 0
            /\ buffer' = <<>>
            /\ expected_content_length' = NoLength

C15_BrokenBodyDroppedAlone == [][C15_Step]_vars

(***************************************************************************)
(* The diagnostics the window has stored for a uri, and a handler that     *)
(* was given a publishDiagnostics notification with a uri and a list.      *)
(***************************************************************************)
DiagnosticUris == {"file:///w1/a.py", "file:///w2/b.py", "file:///W1/a.py", "untitled:1"}

StoredFor(store, uri) ==
    IF uri_to_path(uri) # NoPath /\ normalize_path(uri_to_path(uri)) \in DOMAIN store
    THEN store[normalize_path(uri_to_path(uri))]
    ELSE <<>>

PublishedList(o) ==
    /\ RanStdout(o)
    /\ Handled(o).method = "textDocument/publishDiagnostics"
    /\ IsStr(Handled(o).params.uri)
    /\ Handled(o).params.diagnostics \notin {"null", "number"}

(***************************************************************************)
(* C16 as stated.  After a publishDiagnostics notification for a uri, the  *)
(* diagnostics stored for that uri are exactly the list it carried, and    *)
(* the diagnostics stored for every other uri are as they were.            *)
(***************************************************************************)
C16_StoredAsCarried_Step ==
    PublishedList(out') =>
        LET m == Handled(out')
        IN  /\ StoredFor(lsp_diagnostics_by_path', m.params.uri) =
                    entries_of(m.params.diagnostics)
            /\ \A uri \in DiagnosticUris \ {m.params.uri} :
                    StoredFor(lsp_diagnostics_by_path', uri) =
                        StoredFor(lsp_diagnostics_by_path, uri)

C16_StoredAsCarried == [][C16_StoredAsCarried_Step]_vars

(***************************************************************************)
(* C16, amended.  After a publishDiagnostics notification that carries a   *)
(* list for a uri that names a file, the diagnostics stored for that file  *)
(* are exactly the entries of the list that are objects, in their order    *)
(* (none for an empty list, never the previous ones as well), and the      *)
(* diagnostics stored for every other file are as they were.  A            *)
(* notification whose uri names no file, or that carries no list, changes  *)
(* nothing that is stored.                                                 *)
(***************************************************************************)
C16_Step ==
    /\ PublishedList(out') =>
        LET m == Handled(out')
            key == normalize_path(uri_to_path(m.params.uri))
        IN  IF uri_to_path(m.params.uri) = NoPath
            THEN UNCHANGED lsp_diagnostics_by_path
            ELSE /\ DOMAIN lsp_diagnostics_by_path' = DOMAIN lsp_diagnostics_by_path \cup {key}
                 /\ lsp_diagnostics_by_path'[key] =
                        SelectSeq(entries_of(m.params.diagnostics), LAMBDA entry : entry # "n7")
                 /\ \A other \in DOMAIN lsp_diagnostics_by_path \ {key} :
                        lsp_diagnostics_by_path'[other] = lsp_diagnostics_by_path[other]
    /\ (RanStdout(out') /\ ~PublishedList(out')) => UNCHANGED lsp_diagnostics_by_path

C16_RecordsOfLastListStored == [][C16_Step]_vars

\* an empty list was published for a file, while another file has diagnostics
C16_Witness ==
    /\ RanStdout(out)
    /\ out[1].arg = <<20>>
    /\ DOMAIN lsp_diagnostics_by_path = {"/w1/a.py", "/w2/b.py"}
    /\ lsp_diagnostics_by_path["/w1/a.py"] = <<>>
    /\ lsp_diagnostics_by_path["/w2/b.py"] = <<"d1", "d2">>

(***************************************************************************)
(* C17.  For a file's edit list whose ranges, in pre-edit coordinates, are *)
(* pairwise non-overlapping with distinct start positions, the text the    *)
(* applier leaves in the file equals the pre-edit text with every range    *)
(* replaced at once, whatever order the edits were listed in.              *)
(***************************************************************************)
StartOf(edit) == <<edit.range[1], edit.range[2]>>

EndOf(edit) == <<edit.range[3], edit.range[4]>>

\* every edit has a range that ends no earlier than it starts, no two edits
\* start at one position, and of any two one ends where or before the other starts
RangesApart(edits) ==
    /\ \A i \in DOMAIN edits :
        edits[i].range # <<>> /\ ~KeyLess(EndOf(edits[i]), StartOf(edits[i]))
    /\ \A i, j \in DOMAIN edits :
        i # j => /\ StartOf(edits[i]) # StartOf(edits[j])
                 /\ \/ ~KeyLess(StartOf(edits[j]), EndOf(edits[i]))
                    \/ ~KeyLess(StartOf(edits[i]), EndOf(edits[j]))

\* the ranges of the edits, last position first, replaced in text at the
\* offsets they have in pre
RECURSIVE ReplacedAt(_, _, _)
ReplacedAt(pre, text, descending) ==
    IF descending = <<>> THEN text
    ELSE LET edit == Head(descending)
             s == text_position_from_lsp(pre, edit.range[1], edit.range[2])
             e == text_position_from_lsp(pre, edit.range[3], edit.range[4])
         IN  ReplacedAt(pre,
                        SubSeq(text, 1, s) \o edit.newText \o SubSeq(text, e + 1, Len(text)),
                        Tail(descending))

Simultaneous(pre, edits) == ReplacedAt(pre, pre, sort_text_edits_descending(edits))

AppliedToFile(o) ==
    /\ Ran(o, "_apply_text_edits_to_file")
    /\ DiskKey(o[1].arg[1]) \in DOMAIN files
    /\ o[1].arg[2] # <<>>

C17_Step ==
    (AppliedToFile(out') /\ RangesApart(out'[1].arg[2]))
        => files'[DiskKey(out'[1].arg[1])]
               = Simultaneous(files[DiskKey(out'[1].arg[1])], out'[1].arg[2])

C17_DescendingEqualsSimultaneous == [][C17_Step]_vars

(***************************************************************************)
(* C18.  offset_of(text, line, character) is in 0 .. len(text); for a line *)
(* at or beyond the number of lines it is len(text), otherwise it is the   *)
(* length of the lines before the target line plus the smaller of          *)
(* character and the length of the target line without its terminator.     *)
(* Read for the positions a server can send, line and character from 0 up. *)
(***************************************************************************)
\* a line of splitlines without the boundary splitlines ended it at
WithoutTerminator(line) ==
    IF Len(line) >= 2 /\ line[Len(line) - 1] = CR /\ line[Len(line)] = LF
    THEN SubSeq(line, 1, Len(line) - 2)
    ELSE IF line # <<>> /\ line[Len(line)] \in LineBoundaries
    THEN SubSeq(line, 1, Len(line) - 1)
    ELSE line

OffsetAsSpecified(text, line, character) ==
    LET lines == splitlines(text)
        target == WithoutTerminator(lines[line + 1])
    IN  IF line >= Len(lines) THEN Len(text)
        ELSE SumLen(lines, line)
                 + (IF character < Len(target) THEN character ELSE Len(target))

C18_OffsetClampedToLine ==
    Ran(out, "_text_position_from_lsp")
        => LET text == out[1].arg[1]
               line == out[1].arg[2]
               character == out[1].arg[3]
               offset == out[Len(out)].value
           IN  /\ offset \in 0 .. Len(text)
               /\ (line >= 0 /\ character >= 0)
                      => offset = OffsetAsSpecified(text, line, character)

(***************************************************************************)
(* C19.  Applying a workspace edit returns (files changed, edits applied), *)
(* counting the files whose edits were applied and written and the edits   *)
(* applied to them.  A file whose read or write fails adds nothing to      *)
(* either count, a file changed in the batch stays changed whatever        *)
(* happens to the files after it, and a workspace edit that carries no     *)
(* edits returns (0, 0) and touches nothing.  The window has no editor     *)
(* open.                                                                   *)
(***************************************************************************)
RECURSIVE EditsOf(_, _)
\* the edits the entries carry for uri, in the order carried
EditsOf(entries, uri) ==
    IF entries = <<>> THEN <<>>
    ELSE (IF Head(entries).uri = uri /\ Head(entries).edits # NotAList
          THEN Head(entries).edits ELSE <<>>) \o EditsOf(Tail(entries), uri)

EditsFor(workspace_edit, path) ==
    EditsOf(workspace_edit.changes \o workspace_edit.documentChanges, path_to_uri(path))

Ranged(edits) == SelectSeq(edits, LAMBDA e : e.range # <<>>)

EditedPaths == {"/w1/a.py", "/w2/b.py"}

\* the files that have edits to apply and neither fail to be read nor to be written
Succeeding(workspace_edit, failing) ==
    {p \in EditedPaths : /\ p \in DOMAIN files
                         /\ Ranged(EditsFor(workspace_edit, p)) # <<>>
                         /\ failing[p] = "none"}

RECURSIVE SumRanged(_, _)
SumRanged(workspace_edit, paths) ==
    IF paths = {} THEN 0
    ELSE LET p == CHOOSE q \in paths : TRUE
         IN  Len(Ranged(EditsFor(workspace_edit, p)))
                 + SumRanged(workspace_edit, paths \ {p})

C19_Step ==
    Ran(out', "_apply_workspace_edit")
        => LET workspace_edit == out'[1].arg[1]
               failing == out'[1].arg[2]
               changed == Succeeding(workspace_edit, failing)
           IN  /\ out'[Len(out')].value
                      = <<Cardinality(changed), SumRanged(workspace_edit, changed)>>
               /\ \A p \in changed :
                      files'[p] = apply_sorted_edits(
                                      files[p],
                                      sort_text_edits_descending(
                                          EditsFor(workspace_edit, p))).content
               /\ \A p \in DOMAIN files :
                      (p \notin changed /\ failing[p] # "write") => files'[p] = files[p]
               /\ (\A p \in EditedPaths : EditsFor(workspace_edit, p) = <<>>)
                      => /\ out'[Len(out')].value = <<0, 0>>
                         /\ Len(out') = 2
                         /\ files' = files
                         /\ file_disk_state' = file_disk_state

C19_CountsOnlyFilesWritten == [][C19_Step]_vars

\* a batch of two files ran: the first was changed and stays changed, the
\* write of the second failed, and one file is counted
C19_Witness ==
    /\ Ran(out, "_apply_workspace_edit")
    /\ out[1].arg[2]["/w1/a.py"] = "none"
    /\ out[1].arg[2]["/w2/b.py"] = "write"
    /\ Len(out[1].arg[1].changes) = 2
    /\ out[1].arg[1].changes[1].uri = "file:///w1/a.py"
    /\ out[Len(out)].value = <<1, 1>>
    /\ files["/w1/a.py"][1] = LetterX
    /\ files["/w2/b.py"] = <<>>
    /\ \E i \in DOMAIN out :
        out[i].k = "log" /\ out[i].text = <<"Could not write rename target", "/w2/b.py">>

(***************************************************************************)
(* C20.  close(path) takes the document out of the queue.  For a document  *)
(* that is only queued, on a connection that is not ready, it writes       *)
(* nothing, and when the connection becomes ready only the documents still *)
(* queued are synced.  For a document with a recorded version on a ready   *)
(* connection it writes exactly one didClose, for that document, and       *)
(* removes the version.                                                    *)
(***************************************************************************)
C20_Step ==
    /\ Ran(out', "close_document") =>
        LET uri == path_to_uri(out'[1].arg[1])
        IN  /\ uri \notin Keys(pending_document_sync')
            /\ uri \notin DOMAIN opened_document_versions'
            /\ (~is_ready /\ uri \notin DOMAIN opened_document_versions)
                   => /\ Writes(out') = <<>>
                      /\ opened_document_versions' = opened_document_versions
            /\ (is_ready /\ uri \in DOMAIN opened_document_versions)
                   => /\ Len(Writes(out')) = 1
                      /\ Writes(out')[1].msg.method = "textDocument/didClose"
                      /\ Writes(out')[1].msg.uri = uri
    /\ (RanStdout(out') /\ BecameReady(out'))
           => \A i \in DOMAIN DocWrites(out') :
                  DocWrites(out')[i].msg.uri \in Keys(pending_document_sync)

C20_CloseOfQueuedDocument == [][C20_Step]_vars

\* a document that was queued on a connection that is not ready has been
\* closed: it has left the queue, another is still queued, nothing was written
C20_Witness ==
    /\ Ran(out, "close_document")
    /\ process # None
    /\ ~is_ready
    /\ \E i \in DOMAIN first_queued : first_queued[i] = path_to_uri(out[1].arg[1])
    /\ path_to_uri(out[1].arg[1]) \notin Keys(pending_document_sync)
    /\ pending_document_sync # <<>>
    /\ Writes(out) = <<>>

(***************************************************************************)
(* C21.  ensure_started(root) while a process is connected whose root is   *)
(* root, normalized, returns True and does nothing else: nothing is        *)
(* spawned, terminated or written, no signal is emitted, and no field of   *)
(* the client changes.                                                     *)
(***************************************************************************)
NormalizedRoot(root) == IF isdir(abspath(root)) THEN abspath(root) ELSE Getcwd

C21_Step ==
    (/\ Ran(out', "ensure_started")
     /\ process \in alive
     /\ root_path # NoPath
     /\ normcase(root_path) = normcase(NormalizedRoot(out'[1].arg[1])))
        => /\ Len(out') = 2
           /\ out'[2] = [k |-> "return", value |-> TRUE]
           /\ UNCHANGED <<ClientFields, Observed, lsp_diagnostics_by_path>>

C21_SameRootIsNoOp == [][C21_Step]_vars

\* ensure_started for the root of a connection that is not ready yet, with
\* its initialize request pending and a document queued
C21_Witness ==
    /\ Ran(out, "ensure_started")
    /\ out[1].arg[1] = "/w1"
    /\ root_path = "/w1"
    /\ process \in alive
    /\ ~is_ready
    /\ pending_requests # EmptyFn
    /\ pending_document_sync # <<>>
    /\ Len(out) = 2
    /\ spawned = 1

(***************************************************************************)
(* C22.  ensure_started that has to launch a server tries the override     *)
(* command first and then the fixed list, in order; the first candidate    *)
(* that spawns becomes the connection.  When no candidate spawns the call  *)
(* returns False, emits ready_changed(False, "server not found") and       *)
(* leaves the client with no process and not ready.                        *)
(***************************************************************************)
\* the order of the candidates: the override, when it is set and splits
\* into words, then the four fixed commands
LaunchOrder(env) ==
    (IF env.override = "" \/ shlex_split(env.override) \in {<<>>, <<"ValueError">>}
     THEN <<>>
     ELSE <<shlex_split(env.override)>>)
        \o << <<"pylsp">>, <<SysExecutable, "-m", "pylsp">>,
              <<"pyright-langserver", "--stdio">>, <<"jedi-language-server">> >>

\* the program of the candidate is found and starts in time
Spawns(candidate, env) ==
    /\ candidate[1] = SysExecutable \/ candidate[1] \in env.on_path
    /\ candidate[1] \in env.starts

\* ensure_started does not find a live connection to the root asked for
Launches ==
    /\ Ran(out', "ensure_started")
    /\ ~(/\ process \in alive
         /\ root_path # NoPath
         /\ normcase(root_path) = normcase(NormalizedRoot(out'[1].arg[1])))

C22_Step ==
    Launches =>
        LET env == out'[1].arg[2]
            order == LaunchOrder(env)
            spawning == {i \in 1..Len(order) : Spawns(order[i], env)}
        IN  IF spawning = {}
            THEN /\ out'[Len(out')] = [k |-> "return", value |-> FALSE]
                 /\ \E i \in 1..Len(out') :
                        out'[i] = [k |-> "ready_changed", ready |-> FALSE,
                                   message |-> "server not found"]
                 /\ process' = None
                 /\ ~is_ready'
                 /\ spawned' = spawned
            ELSE /\ out'[Len(out')] = [k |-> "return", value |-> TRUE]
                 /\ \E i \in spawning :
                        /\ command' = order[i]
                        /\ \A j \in spawning : i <= j
                 /\ process' = spawned'
                 /\ spawned' = spawned + 1
                 /\ process' \in alive'

C22_CandidatesInOrder == [][C22_Step]_vars

\* the override is not installed and of the fixed list only the last
\* command spawns: it becomes the connection
C22_Witness ==
    /\ Ran(out, "ensure_started")
    /\ out[1].arg[2].override = "mylsp --stdio"
    /\ command = <<"jedi-language-server">>
    /\ process \in alive
    /\ out[Len(out)] = [k |-> "return", value |-> TRUE]

(***************************************************************************)
(* C23.  A text change of an editor writes nothing to the server: it only  *)
(* (re)starts the debounce timer of the editor.  The expiry of the timer   *)
(* writes at most one didOpen or didChange, for the document of the        *)
(* editor and with the text the editor holds at expiry, exactly one when   *)
(* the connection is ready for the root of the editor; the timer does not  *)
(* run afterwards.  So any number of changes with no expiry and no         *)
(* immediate sync between them ends in at most one sync.                   *)
(***************************************************************************)
DocSyncs(o) == SelectSeq(o, LAMBDA e : e.k = "write" /\ e.msg.method \in SyncMethods)

\* the connection is ready and serves the root of the editor
ReadyFor(editor) ==
    /\ is_ready
    /\ process \in alive
    /\ root_path # NoPath
    /\ normcase(root_path) = normcase(lsp_workspace_root(Client, editor))

C23_Step ==
    /\ Ran(out', "_on_editor_text_changed") =>
            /\ Writes(out') = <<>>
            /\ server_docs' = server_docs
            /\ pending_document_sync' = pending_document_sync
            /\ out'[1].arg[1] \in lsp_document_timers'
            /\ editor_text'[out'[1].arg[1]] = out'[1].arg[2]
    /\ Ran(out', "timeout") =>
            LET editor == out'[1].arg[1]
                syncs == DocSyncs(out')
            IN  /\ Len(syncs) <= 1
                /\ ReadyFor(editor) => Len(syncs) = 1
                /\ \A i \in DOMAIN syncs :
                        /\ syncs[i].msg.uri = path_to_uri(editor)
                        /\ syncs[i].msg.text = editor_text[editor]
                /\ editor \notin lsp_document_timers'
                /\ editor_text' = editor_text

C23_ChangesCoalesced == [][C23_Step]_vars

\* the timer of an editor expires on a ready connection after the editor
\* was changed to a text the server has not seen: one didChange carries it
C23_Witness ==
    /\ Ran(out, "timeout")
    /\ Len(DocSyncs(out)) = 1
    /\ DocSyncs(out)[1].msg.method = "textDocument/didChange"
    /\ DocSyncs(out)[1].msg.text = <<LetterX>>
    /\ editor_text[out[1].arg[1]] = <<LetterX>>
    /\ out[1].arg[1] \notin lsp_document_timers

(***************************************************************************)
(* C24.  Completion, go-to-definition and rename (once its dialog is       *)
(* accepted) on a connection that is ready for the editor write one        *)
(* didOpen or didChange carrying the text of the editor and, after it, the *)
(* request; whatever the connection, no request is written without that    *)
(* sync before it.  The debounce timer of the editor is not running        *)
(* afterwards, so that no expiry sends the change again.                   *)
(***************************************************************************)
CommandMethod(o) ==
    CASE o[1].op = "trigger_lsp_completion" -> "textDocument/completion"
      [] o[1].op = "go_to_definition" -> "textDocument/definition"
      [] OTHER -> "textDocument/rename"

\* the last handler was one of the three commands, past its dialog
RanCommand(o) ==
    \/ Ran(o, "trigger_lsp_completion")
    \/ Ran(o, "go_to_definition")
    \/ Ran(o, "rename_symbol") /\ Len(o[1].arg) = 2 /\ o[1].arg[2]

RequestWrites(o) ==
    Index(o, LAMBDA e : e.k = "write" /\ e.msg.kind = "request"
                                      /\ e.msg.method # "initialize"
                                      /\ e.msg.method # "shutdown")

C24_Step ==
    RanCommand(out') =>
        LET editor == out'[1].arg[1]
            syncs == Index(out', LAMBDA e : /\ e.k = "write"
                                            /\ e.msg.method \in SyncMethods
                                            /\ e.msg.uri = path_to_uri(editor)
                                            /\ e.msg.text = editor_text[editor])
            requests == RequestWrites(out')
        IN  /\ \A j \in requests :
                /\ out'[j].msg.method = CommandMethod(out')
                /\ out'[j].msg.uri = path_to_uri(editor)
                /\ \E i \in syncs : i < j
            /\ ReadyFor(editor) =>
                /\ Cardinality(requests) = 1
                /\ Cardinality(syncs) = 1
                /\ Len(DocSyncs(out')) = 1
                /\ editor \notin lsp_document_timers'
            /\ editor_text' = editor_text

C24_SyncBeforeRequest == [][C24_Step]_vars

\* a rename whose dialog was accepted after the editor was changed: the
\* second version of the document is written, then the request
C24_Witness ==
    /\ Ran(out, "rename_symbol") /\ Len(out[1].arg) = 2 /\ out[1].arg[2]
    /\ Len(DocSyncs(out)) = 1
    /\ DocSyncs(out)[1].msg.method = "textDocument/didChange"
    /\ DocSyncs(out)[1].msg.text = <<LetterX>>
    /\ \E j \in RequestWrites(out) : out[j].msg.method = "textDocument/rename"
    /\ lsp_document_timers = {}

(***************************************************************************)
(* C25 as stated.  A workspace/configuration request of the server whose   *)
(* params list n items is answered with a list of exactly n empty objects, *)
(* and one whose items are missing or no list with an empty list.          *)
(***************************************************************************)
IsConfigurationRequest(m) ==
    /\ m.is_dict
    /\ ~IsNone(m.id)
    /\ m.result = "absent" /\ m.error = "absent"
    /\ m.method = "workspace/configuration"

\* the number of items the params of m list
ItemsAsked(m) == IF m.params.items >= 0 THEN m.params.items ELSE 0

AnsweredWithEmptyObjects(o, m) ==
    /\ Len(Writes(o)) = 1
    /\ Writes(o)[1].msg.kind = "response"
    /\ Writes(o)[1].msg.result = [t |-> "list", n |-> ItemsAsked(m)]

C25_Step ==
    (RanStdout(out') /\ IsConfigurationRequest(Handled(out'))) =>
        AnsweredWithEmptyObjects(out', Handled(out'))

C25_ConfigurationAnswered == [][C25_Step]_vars

(***************************************************************************)
(* C25 for the requests whose id int() accepts: the statement holds, for   *)
(* 0, 1, 2 and 3 items, for no params and for items that is no list.       *)
(***************************************************************************)
C25_IntegerIdStep ==
    (/\ RanStdout(out')
     /\ IsConfigurationRequest(Handled(out'))
     /\ int_of(Handled(out').id).ok) =>
        /\ AnsweredWithEmptyObjects(out', Handled(out'))
        /\ Writes(out')[1].msg.id = int_of(Handled(out').id).value

C25_ConfigurationAnsweredForIntegerIds == [][C25_IntegerIdStep]_vars

\* the request for three items has been answered with three empty objects
C25_Witness ==
    /\ RanStdout(out)
    /\ Handled(out) = ServerMessages[27]
    /\ Len(Writes(out)) = 1
    /\ Writes(out)[1].msg.result = [t |-> "list", n |-> 3]

(***************************************************************************)
(* C26 as stated.  On every connection the initialized notification is     *)
(* written after the successful response to initialize, before the ready   *)
(* event and before every didOpen, didChange, didClose and every           *)
(* completion, definition or rename request; none of these is written to a *)
(* process whose handshake has not completed.  A connection is ready only  *)
(* from the handler that wrote initialized to its process, so "ready       *)
(* before the handler" stands for a handshake completed earlier.           *)
(***************************************************************************)
FeatureMethods ==
    DocMethods \cup {"textDocument/completion", "textDocument/definition",
                     "textDocument/rename"}

IsWriteOf(e, methods) == e.k = "write" /\ e.msg.method \in methods

\* a dispatched message that answers the pending initialize request and
\* whose error member is absent or null
IsSuccessfulInitializeResponse(e) ==
    /\ e.k = "dispatch"
    /\ IsResponseShape(e.message)
    /\ NumericId(e.message) \in DOMAIN pending_requests
    /\ pending_requests[NumericId(e.message)] = "_on_initialize_response"
    /\ get(e.message.error) = PyNone

\* the same with an error member that is no object counted as success
IsInitializeResponseWithoutErrorObject(e) ==
    /\ e.k = "dispatch"
    /\ IsResponseShape(e.message)
    /\ NumericId(e.message) \in DOMAIN pending_requests
    /\ pending_requests[NumericId(e.message)] = "_on_initialize_response"
    /\ e.message.error # "object"

\* nothing before index j of the log replaced or ended the connection
SameConnectionUpTo(o, j) ==
    \A i \in 1 .. j - 1 : o[i].k \notin {"spawn", "terminate"}

HandshakeOrder(Success(_)) ==
    /\ \A i \in Index(out', LAMBDA e : IsWriteOf(e, {"initialized"})) :
            /\ Ran(out', "_on_stdout_ready")
            /\ out'[i].to = process
            /\ ~is_ready
            /\ \E d \in 1 .. i - 1 : Success(out'[d])
            /\ \E r \in i + 1 .. Len(out') :
                    out'[r].k = "ready_changed" /\ out'[r].ready
            /\ \A r \in 1 .. i - 1 :
                    ~(out'[r].k = "ready_changed" /\ out'[r].ready)
            /\ \A j \in 1 .. i - 1 : ~IsWriteOf(out'[j], FeatureMethods)
    /\ \A j \in Index(out', LAMBDA e : IsWriteOf(e, FeatureMethods)) :
            \/ \E i \in 1 .. j - 1 :
                    /\ IsWriteOf(out'[i], {"initialized"})
                    /\ out'[i].to = out'[j].to
                    /\ \A x \in i .. j : out'[x].k # "spawn"
            \/ /\ is_ready
               /\ out'[j].to = process
               /\ SameConnectionUpTo(out', j)
    /\ is_ready' =>
            \/ is_ready /\ process' = process
            \/ \E i \in DOMAIN out' :
                    IsWriteOf(out'[i], {"initialized"}) /\ out'[i].to = process'

C26_HandshakeFirst == [][HandshakeOrder(IsSuccessfulInitializeResponse)]_vars

(***************************************************************************)
(* C26 with every response to initialize that carries no error object      *)
(* taken for successful, as _handle_message takes it.                      *)
(***************************************************************************)
C26_HandshakeFirstByErrorObject ==
    [][HandshakeOrder(IsInitializeResponseWithoutErrorObject)]_vars

\* the handshake completes with a document queued: initialized, the ready
\* event and the didOpen of the document follow each other in one handler
C26_Witness ==
    /\ RanStdout(out)
    /\ \E i, r, j \in DOMAIN out :
        /\ i < r /\ r < j
        /\ IsWriteOf(out[i], {"initialized"})
        /\ out[r].k = "ready_changed" /\ out[r].ready
        /\ IsWriteOf(out[j], {"textDocument/didOpen"})

(***************************************************************************)
(* C27 as stated.  stop() writes a shutdown request and then an exit       *)
(* notification to the process, both before the process is terminated,     *)
(* exactly when the connection was ready when stop() was called; on a      *)
(* connection that is not ready it writes neither.                         *)
(***************************************************************************)
\* the writes of the log are shutdown, then exit, to p, and p is terminated
\* after them
ShutdownThenExit(o, p) ==
    LET ws == Index(o, LAMBDA e : e.k = "write")
    IN  /\ Cardinality(ws) = 2
        /\ \E i, j \in ws :
            /\ i < j
            /\ o[i].to = p /\ o[i].msg.kind = "request" /\ o[i].msg.method = "shutdown"
            /\ o[j].to = p /\ o[j].msg.kind = "notification" /\ o[j].msg.method = "exit"
            /\ \E t \in j + 1 .. Len(o) : o[t] = [k |-> "terminate", pid |-> p]
            /\ \A t \in 1 .. j : o[t].k # "terminate"

C27_Step ==
    Ran(out', "stop") =>
        IF is_ready
        THEN ShutdownThenExit(out', process)
        ELSE Writes(out') = <<>>

C27_ShutdownExactlyWhenReady == [][C27_Step]_vars

(***************************************************************************)
(* C27 with "running" for "ready": stop() writes shutdown and exit, in     *)
(* this order and before it terminates the process, exactly when the       *)
(* client has a process that is running.                                   *)
(***************************************************************************)
C27_RunningStep ==
    Ran(out', "stop") =>
        IF process # None /\ process \in alive
        THEN ShutdownThenExit(out', process)
        ELSE Writes(out') = <<>>

C27_ShutdownExactlyWhenRunning == [][C27_RunningStep]_vars

\* stop() of a connection whose initialize request is not answered yet
C27_Witness ==
    /\ Ran(out, "stop")
    /\ \A i \in DOMAIN out : out[i].k # "ready_changed" \/ out[i].message # "stopped"
    /\ Len(Writes(out)) = 2
    /\ Writes(out)[1].msg.method = "shutdown"
    /\ Writes(out)[2].msg.method = "exit"

(***************************************************************************)
(* C28 as stated.  stop() on a ready connection emits exactly one          *)
(* readiness event, (False, "stopped"); stop() on a client that is not     *)
(* ready emits none; and (False, "server exited") is emitted only for the  *)
(* exit of a process that stop() did not cause.                            *)
(***************************************************************************)
ReadyEvents(o) == SelectSeq(o, LAMBDA e : e.k = "ready_changed")

EventStopped == [k |-> "ready_changed", ready |-> FALSE, message |-> "stopped"]

EventServerExited == [k |-> "ready_changed", ready |-> FALSE, message |-> "server exited"]

\* the handler of finished() of the current process, which nothing stopped
RanUnexpectedExit(o) ==
    /\ Ran(o, "_on_process_finished")
    /\ o[1].arg[1] = process
    /\ process \in alive

C28_Step ==
    /\ Ran(out', "stop") =>
            ReadyEvents(out') = IF is_ready THEN <<EventStopped>> ELSE <<>>
    /\ (\E i \in DOMAIN out' : out'[i] = EventServerExited) => RanUnexpectedExit(out')

C28_StoppedOnlyOnce == [][C28_Step]_vars

(***************************************************************************)
(* C28 as the code has it: stop() emits "stopped" first and once, exactly  *)
(* when the connection was ready, and a process that stop() terminates     *)
(* emits "server exited" as well, within stop() when it exits while stop() *)
(* waits for it and from its own finished() afterwards otherwise.          *)
(***************************************************************************)
C28_CodeStep ==
    Ran(out', "stop") =>
        /\ Count(out', LAMBDA e : e = EventStopped) = (IF is_ready THEN 1 ELSE 0)
        /\ is_ready => ReadyEvents(out')[1] = EventStopped
        /\ Count(out', LAMBDA e : e = EventServerExited) =
                (IF process \in alive /\ process \notin stale' THEN 1 ELSE 0)
        /\ \A i \in DOMAIN ReadyEvents(out') :
                ReadyEvents(out')[i] \in {EventStopped, EventServerExited}

C28_StoppedThenServerExited == [][C28_CodeStep]_vars

\* stop() of a ready connection whose process exited while stop() waited
C28_Witness ==
    /\ Ran(out, "stop")
    /\ ReadyEvents(out) = <<EventStopped, EventServerExited>>
    /\ process = None
    /\ stale = {}

(***************************************************************************)
(* C29 as stated.  When the connection drops, by stop() or by the exit of  *)
(* its process, in whatever state it was, no diagnostics are stored for    *)
(* any file afterwards; and once none are stored, none are until a         *)
(* publishDiagnostics notification is handled.                             *)
(***************************************************************************)
NoDiagnostics(stored) == \A key \in DOMAIN stored : stored[key] = <<>>

C29_Step ==
    /\ (Ran(out', "stop") \/ RanUnexpectedExit(out')) =>
            NoDiagnostics(lsp_diagnostics_by_path')
    /\ (NoDiagnostics(lsp_diagnostics_by_path) /\ ~PublishedList(out')) =>
            NoDiagnostics(lsp_diagnostics_by_path')
    /\ PublishedList(out') => process \in alive

C29_DropClearsDiagnostics == [][C29_Step]_vars

(***************************************************************************)
(* C29 for the drops that emit a readiness event: stop() of a connection   *)
(* that was ready or whose process exits while stop() waits for it, and    *)
(* the exit of the process by itself.                                      *)
(***************************************************************************)
C29_EventStep ==
    /\ ((Ran(out', "stop") /\ (is_ready \/ (process \in alive /\ process \notin stale')))
            \/ RanUnexpectedExit(out')) =>
            NoDiagnostics(lsp_diagnostics_by_path')
    /\ (NoDiagnostics(lsp_diagnostics_by_path) /\ ~PublishedList(out')) =>
            NoDiagnostics(lsp_diagnostics_by_path')
    /\ PublishedList(out') => process \in alive

C29_DropWithEventClearsDiagnostics == [][C29_EventStep]_vars

\* stop() of a ready connection that had diagnostics for two files
C29_Witness ==
    /\ Ran(out, "stop")
    /\ \E i \in DOMAIN out : out[i] = EventStopped
    /\ lsp_diagnostics_by_path = EmptyFn
    /\ process = None

(***************************************************************************)
(* C30.  open_or_change_document on a connection that is not ready returns *)
(* False, writes nothing and leaves the queue with one entry for the uri,  *)
(* holding the text of this call; the queue never has two entries for one  *)
(* uri; an entry changes only by such a call for its uri, and otherwise    *)
(* stays or leaves the queue; and when the connection becomes ready one    *)
(* didOpen or didChange is written for each entry, with the text of the    *)
(* entry.  So the text flushed for a uri is that of the last call made for *)
(* it while not ready.                                                     *)
(***************************************************************************)
EntriesFor(pending, uri) == SelectSeq(pending, LAMBDA e : e.uri = uri)

UriTexts(entries) == [i \in DOMAIN entries |-> <<entries[i].uri, entries[i].text>>]

WrittenUriTexts(o) ==
    [i \in DOMAIN DocSyncs(o) |-> <<DocSyncs(o)[i].msg.uri, DocSyncs(o)[i].msg.text>>]

C30_Step ==
    /\ \A uri \in Uris : Len(EntriesFor(pending_document_sync', uri)) <= 1
    /\ (Ran(out', "open_or_change_document") /\ ~is_ready) =>
            LET uri == path_to_uri(abspath(out'[1].arg[1]))
            IN  /\ out'[Len(out')] = [k |-> "return", value |-> FALSE]
                /\ Writes(out') = <<>>
                /\ EntriesFor(pending_document_sync', uri) =
                        <<[uri |-> uri, text |-> out'[1].arg[2], language_id |-> "python"]>>
                /\ \A other \in Uris \ {uri} :
                        EntriesFor(pending_document_sync', other) =
                            EntriesFor(pending_document_sync, other)
    /\ ~Ran(out', "open_or_change_document") =>
            \A uri \in Uris :
                EntriesFor(pending_document_sync', uri) \in
                    {<<>>, EntriesFor(pending_document_sync, uri)}
    /\ (RanStdout(out') /\ BecameReady(out')) =>
            /\ WrittenUriTexts(out') = UriTexts(pending_document_sync)
            /\ pending_document_sync' = <<>>
            /\ \A i \in DOMAIN pending_document_sync :
                    server_docs'[pending_document_sync[i].uri].text =
                        pending_document_sync[i].text

C30_LastQueuedTextFlushed == [][C30_Step]_vars

\* the connection became ready with two documents queued, the first of
\* which was queued again after the second: both are written
C30_Witness ==
    /\ RanStdout(out)
    /\ BecameReady(out)
    /\ Len(DocSyncs(out)) = 2
    /\ Len(first_queued) = 2
    /\ first_queued # last_queued
    /\ DocSyncs(out)[1].msg.text # DocSyncs(out)[2].msg.text

(***************************************************************************)
(* C31.  When the result of a rename has edits with a range for a file     *)
(* that is open in an editor, the edits are applied to the text of the     *)
(* editor, the file on disk is left as it is, a didChange of the document  *)
(* carrying the text the editor holds after the edits is written in the    *)
(* same handler, and the debounce timer of the editor is not running       *)
(* afterwards.                                                             *)
(***************************************************************************)
\* the didChange notifications a handler wrote for the document of a path
DidChanges(o, path) ==
    SelectSeq(o, LAMBDA e : /\ e.k = "write"
                            /\ e.msg.method = "textDocument/didChange"
                            /\ e.msg.uri = path_to_uri(path))

\* the open editors a rename result has edits with a range for
EditedEditors(result) ==
    {p \in Editors : Ranged(EditsFor(result, p)) # <<>>}

C31_Step ==
    Ran(out', "_apply_rename_result") =>
        \A editor \in EditedEditors(out'[1].arg[1]) :
            LET edits == EditsFor(out'[1].arg[1], editor)
                edited == insert_sorted_edits(editor_text[editor],
                                              sort_text_edits_descending(edits)).content
                changes == DidChanges(out', editor)
            IN  /\ editor_text'[editor] = edited
                /\ files'[DiskKey(editor)] = files[DiskKey(editor)]
                /\ Len(changes) = 1
                /\ changes[1].msg.text = edited
                /\ changes[1].to = process'
                /\ editor \notin lsp_document_timers'

HandshakeCompleted ==
    /\ Ran(out', "_on_stdout_ready")
    /\ ~is_ready
    /\ is_ready'

\* the server holds the text of the editor, if it holds the document at all
ServerHasTextOf(editor) ==
    path_to_uri(editor) \in DOMAIN server_docs' =>
        server_docs'[path_to_uri(editor)].text = editor_text'[editor]

C32_Step ==
    HandshakeCompleted => \A editor \in Editors : ServerHasTextOf(editor)

C32_ServerHasEditorTextAfterHandshake == [][C32_Step]_vars

(***************************************************************************)
(* C32 as the code has it.  After the handshake the server holds the text  *)
(* of every open editor whose document was not in the queue, or was in the *)
(* queue with the text the editor still holds; a document queued with an   *)
(* older text is written twice, the older text last.                       *)
(***************************************************************************)
QueuedText(uri) ==
    LET i == CHOOSE j \in DOMAIN pending_document_sync : pending_document_sync[j].uri = uri
    IN  pending_document_sync[i].text

C32_QueueStep ==
    HandshakeCompleted =>
        \A editor \in Editors :
            LET uri == path_to_uri(editor)
            IN  /\ uri \in DOMAIN server_docs'
                /\ IF uri \in Keys(pending_document_sync)
                   THEN /\ server_docs'[uri].text = QueuedText(uri)
                        /\ server_docs'[uri].version = 2
                   ELSE /\ server_docs'[uri].text = editor_text'[editor]
                        /\ server_docs'[uri].version = 1

C32_QueuedTextWrittenLast == [][C32_QueueStep]_vars

\* the handshake ended with the server holding an older text than the
\* editor, and no timer left to send the newer one
C32_Witness ==
    /\ Ran(out, "_on_stdout_ready")
    /\ is_ready
    /\ "file:///w1/a.py" \in DOMAIN server_docs
    /\ server_docs["file:///w1/a.py"].text # editor_text["/w1/a.py"]
    /\ server_docs["file:///w1/a.py"].version = 2
    /\ lsp_document_timers = {}

(***************************************************************************)
(* C33 as stated.  With the editors that are open, and nothing done by the *)
(* user, the client settles: the handler of a successful initialize        *)
(* response spawns no server process and leaves the connection ready,     *)
(* unless it is left with no server at all because none is installed any   *)
(* more; so the processes spawned are those the user's actions spawned.    *)
(***************************************************************************)
\* the last handler ran a successful initialize response of the connection
HandshakeAnswered ==
    /\ Ran(out', "_on_stdout_ready")
    /\ ~is_ready
    /\ \E j \in DOMAIN out' : out'[j].k = "ready_changed" /\ out'[j].ready

C33_Step ==
    HandshakeAnswered =>
        /\ process' # None => is_ready'
        /\ spawned' = spawned

C33_HandshakeSettles == [][C33_Step]_vars

(***************************************************************************)
(* C33 as the code has it.  The handshake settles exactly when every open  *)
(* editor asks for the root the connection serves.  With editors in two    *)
(* directories and no folder it never does: the handler ends with the      *)
(* connection not ready, and, when a server starts, with a new process     *)
(* whose initialize request is pending, the editors and the folder being   *)
(* what they were, which is the state the handler started in.              *)
(***************************************************************************)
\* the roots the open editors ask ensure_started for
RootsAsked == {normcase(lsp_workspace_root(Client, editor)) : editor \in Editors}

C33_RootsStep ==
    HandshakeAnswered =>
        /\ open_editors' = open_editors
        /\ workspace_root' = workspace_root
        /\ RootsAsked \subseteq {normcase(root_path)} =>
                /\ is_ready'
                /\ process' = process
                /\ spawned' = spawned
        /\ Cardinality(RootsAsked) > 1 =>
                /\ ~is_ready'
                /\ process' # process
                /\ process' # None =>
                        /\ process' \in alive'
                        /\ spawned' > spawned
                        /\ DOMAIN pending_requests' = {1}
                        /\ pending_requests'[1] = "_on_initialize_response"

C33_HandshakeSettlesForOneRootOnly == [][C33_RootsStep]_vars

\* the handshake of a window with editors in two directories and no folder
\* ended with another server process spawned, waiting for its handshake
C33_Witness ==
    /\ Ran(out, "_on_stdout_ready")
    /\ \E j \in DOMAIN out : out[j].k = "ready_changed" /\ out[j].ready
    /\ workspace_root = NoPath
    /\ Cardinality(RootsAsked) = 2
    /\ ~is_ready
    /\ process \in alive
    /\ spawned = 2
    /\ DOMAIN pending_requests = {1}

(***************************************************************************)
(* C34: after an editor tab is closed, no didOpen or didChange is written  *)
(* for its document unless the file is opened again: every didOpen and     *)
(* didChange a step writes is for a document that has an open editor when  *)
(* the step ends, so that a timer armed before the close never syncs.      *)
(***************************************************************************)
SyncedPaths(o) ==
    {p \in {"/w1/a.py", "/w2/b.py"} :
        \E i \in DOMAIN DocSyncs(o) : DocSyncs(o)[i].msg.uri = path_to_uri(p)}

C34_Step ==
    \A path \in SyncedPaths(out') :
        \E i \in DOMAIN open_editors' : open_editors'[i] = path

C34_NoSyncAfterClose == [][C34_Step]_vars

(***************************************************************************)
(* C34 as the code has it.  The timer of an editor that is not open        *)
(* expires only while Close Folder is asking about another tab, for an     *)
(* editor closed earlier in the same run and not deleted yet; once no      *)
(* dialog is showing, every timer left is the timer of an open editor, so  *)
(* the timer of a tab closed with its close button never syncs.            *)
(***************************************************************************)
C34_DialogStep ==
    /\ Ran(out', "timeout") =>
        \/ \E i \in DOMAIN open_editors : open_editors[i] = out'[1].arg[1]
        \/ /\ close_dialog # NoPath
           /\ out'[1].arg[1] \in closed_editors
    /\ close_dialog' = NoPath =>
        /\ closed_editors' = {}
        /\ lsp_document_timers' \subseteq {open_editors'[i] : i \in DOMAIN open_editors'}

C34_SyncAfterCloseOnlyDuringDialog == [][C34_DialogStep]_vars

\* a tab whose timer was armed is closed with its close button, and the
\* timer is gone
C34_Witness ==
    /\ Ran(out, "_request_close_tab")
    /\ out[1].arg[2]
    /\ \E i \in DOMAIN out : out[i].k = "write" /\ out[i].msg.method = "textDocument/didClose"
    /\ out[1].arg[1] \notin lsp_document_timers
    /\ out[1].arg[1] \notin DOMAIN editor_text

(***************************************************************************)
(* C35: the exit notification of a process that is not the current         *)
(* connection any more, because it was stopped or replaced, leaves the     *)
(* readiness, the pending requests, the document versions, the queued      *)
(* syncs and the process handle of the current connection as they are.     *)
(***************************************************************************)
StaleExit(o) == Ran(o, "_on_process_finished") /\ o[1].arg[1] # process

C35_Step ==
    StaleExit(out') =>
        /\ is_ready' = is_ready
        /\ pending_requests' = pending_requests
        /\ opened_document_versions' = opened_document_versions
        /\ pending_document_sync' = pending_document_sync
        /\ process' = process

C35_StaleExitLeavesConnection == [][C35_Step]_vars

(***************************************************************************)
(* C35 as the code has it.  _on_process_finished does not ask which        *)
(* process ended: the exit of a process that was stopped or replaced does  *)
(* to the current connection what the exit of its own process does.        *)
(***************************************************************************)
C35_AnyExitStep ==
    Ran(out', "_on_process_finished") =>
        /\ ~is_ready'
        /\ pending_requests' = EmptyFn
        /\ opened_document_versions' = EmptyFn
        /\ pending_document_sync' = <<>>
        /\ process' = None
        /\ root_path' = root_path
        /\ command' = command

C35_AnyExitDropsConnection == [][C35_AnyExitStep]_vars

\* a replaced process ends while its successor is ready with a document open
C35_Witness ==
    /\ Ran(out, "_on_process_finished")
    /\ out[1].arg[1] < spawned
    /\ process = None
    /\ root_path # NoPath
    /\ \E i \in DOMAIN out : out[i].k = "ready_changed"

(***************************************************************************)
(* C36: whenever no handler is running, a client that is not ready has an  *)
(* empty table of document versions, and a client that is ready has an     *)
(* empty queue of pending syncs.                                           *)
(***************************************************************************)
C36_VersionsOnlyWhenReadyQueueOnlyWhenNot ==
    /\ ~is_ready => opened_document_versions = EmptyFn
    /\ is_ready => pending_document_sync = <<>>

\* the handshake ended with the queue written out: ready, versions counted,
\* nothing queued
C36_Witness ==
    /\ is_ready
    /\ \E i \in DOMAIN out : out[i].k = "ready_changed" /\ out[i].ready
    /\ DocSyncs(out) # <<>>
    /\ opened_document_versions # EmptyFn
    /\ pending_document_sync = <<>>

(***************************************************************************)
(* C37: whenever a live connection exists and is not ready, its initialize *)
(* request is still pending, so that the connection can still become       *)
(* ready; ensure_started returns success only for a connection that is     *)
(* ready or has its handshake in progress.                                 *)
(***************************************************************************)
InitializePending(pending) ==
    \E id \in DOMAIN pending : pending[id] = "_on_initialize_response"

C37_Step ==
    /\ (process' \in alive' /\ ~is_ready') => InitializePending(pending_requests')
    /\ (Ran(out', "ensure_started") /\ out'[Len(out')] = [k |-> "return", value |-> TRUE]) =>
            (is_ready' \/ InitializePending(pending_requests'))

C37_UnreadyConnectionAwaitsHandshake == [][C37_Step]_vars

(***************************************************************************)
(* C37 as the code has it.  A live connection is left un-ready with no     *)
(* initialize request pending by one thing only, an initialize response    *)
(* with an error object; nothing pending can make it ready afterwards, and *)
(* ensure_started for its root returns success without starting a server.  *)
(***************************************************************************)
Stuck(p, alive_now, ready, pending) ==
    p \in alive_now /\ ~ready /\ ~InitializePending(pending)

InitializeFailed(o) ==
    \E i \in DOMAIN o : o[i] = [k |-> "ready_changed", ready |-> FALSE,
                                message |-> "initialize failed"]

C37_StuckStep ==
    /\ Stuck(process', alive', is_ready', pending_requests') =>
        \/ InitializeFailed(out')
        \/ Stuck(process, alive, is_ready, pending_requests) /\ process' = process
    /\ (Stuck(process, alive, is_ready, pending_requests) /\ is_ready') =>
            process' # process

C37_UnreadyForGoodAfterInitializeError == [][C37_StuckStep]_vars

\* ensure_started returns success for a connection whose handshake failed
C37_Witness ==
    /\ Stuck(process, alive, is_ready, pending_requests)
    /\ Ran(out, "ensure_started")
    /\ out[Len(out)] = [k |-> "return", value |-> TRUE]
    /\ \A i \in DOMAIN out : out[i].k # "spawn"

(***************************************************************************)
(* C38: when several edits of one file have the same start position, as    *)
(* several insertions at one point have, their replacement texts appear in *)
(* the resulting document in the order in which the edits are listed.      *)
(***************************************************************************)
\* more than one edit, each an insertion, all at one point with a line break
\* in none of the texts
InsertionsAtOnePoint(edits) ==
    /\ Len(edits) >= 2
    /\ \A i \in DOMAIN edits :
        /\ edits[i].range # <<>>
        /\ StartOf(edits[i]) = EndOf(edits[i])
        /\ StartOf(edits[i]) = StartOf(edits[1])
        /\ \A k \in DOMAIN edits[i].newText : edits[i].newText[k] \notin LineBoundaries

RECURSIVE InListedOrder(_)
InListedOrder(edits) ==
    IF edits = <<>> THEN <<>> ELSE Head(edits).newText \o InListedOrder(Tail(edits))

RECURSIVE InReverseOrder(_)
InReverseOrder(edits) ==
    IF edits = <<>> THEN <<>> ELSE InReverseOrder(Tail(edits)) \o Head(edits).newText

\* pre with text put in at the offset the point has in pre
InsertedAt(pre, point, text) ==
    LET at == text_position_from_lsp(pre, point[1], point[2])
    IN  SubSeq(pre, 1, at) \o text \o SubSeq(pre, at + 1, Len(pre))

C38_Step ==
    (AppliedToFile(out') /\ InsertionsAtOnePoint(out'[1].arg[2])) =>
        files'[DiskKey(out'[1].arg[1])] =
            InsertedAt(files[DiskKey(out'[1].arg[1])], StartOf(out'[1].arg[2][1]),
                       InListedOrder(out'[1].arg[2]))

C38_SameStartInListedOrder == [][C38_Step]_vars

(***************************************************************************)
(* C38 as the code has it.  The stable sort keeps the listed order, and    *)
(* each insertion is made at the offset the point has in the text as the   *)
(* insertions before it left it.  Where the point has the same offset      *)
(* after the first insertion as before, as every point inside the text     *)
(* has, the texts appear in the reverse of the listed order; where it is   *)
(* clamped to the end of the line or of the text and moves with that end,  *)
(* they appear in the listed order.                                        *)
(***************************************************************************)
\* the point has the offset in pre that it has once the first text is in
StaysPut(pre, edits) ==
    LET point == StartOf(edits[1])
    IN  text_position_from_lsp(InsertedAt(pre, point, edits[1].newText), point[1], point[2])
            = text_position_from_lsp(pre, point[1], point[2])

C38_ReverseStep ==
    (AppliedToFile(out') /\ InsertionsAtOnePoint(out'[1].arg[2])) =>
        LET pre == files[DiskKey(out'[1].arg[1])]
            edits == out'[1].arg[2]
        IN  files'[DiskKey(out'[1].arg[1])] =
                InsertedAt(pre, StartOf(edits[1]),
                           IF StaysPut(pre, edits)
                           THEN InReverseOrder(edits)
                           ELSE InListedOrder(edits))

C38_SameStartInReverseOrderWherePointStays == [][C38_ReverseStep]_vars

\* two insertions of different texts were made at one point inside the text
C38_Witness ==
    /\ AppliedToFile(out)
    /\ InsertionsAtOnePoint(out[1].arg[2])
    /\ out[1].arg[2][1].newText # out[1].arg[2][2].newText
    /\ out[1].arg[2][1].range[2] = 1
    /\ files[DiskKey(out[1].arg[1])][2] = out[1].arg[2][2].newText[1]
    /\ out[Len(out)] = [k |-> "return", value |-> 2]

(***************************************************************************)
(* C39: applying an edit list to a text yields the same text whether the   *)
(* file is open in an editor, where the edits go to the buffer, or closed, *)
(* where they go to the content of the file; also for edits whose line is  *)
(* beyond the last line of the document.                                   *)
(***************************************************************************)
AppliedToEditor(o) ==
    /\ Ran(o, "_apply_text_edits_to_editor")
    /\ o[1].arg[2] # <<>>

\* what _apply_text_edits_to_file makes of a text and a list of edits
AsFile(text, edits) == apply_sorted_edits(text, sort_text_edits_descending(edits)).content

C39_Step ==
    AppliedToEditor(out') =>
        editor_text'[out'[1].arg[1]] = AsFile(editor_text[out'[1].arg[1]], out'[1].arg[2])

C39_EditorAsFile == [][C39_Step]_vars

(***************************************************************************)
(* C39 as the code has it.  The editor and the file end with the same text *)
(* for edits that lie apart and whose lines are lines of the text.  A line *)
(* beyond the last line is the end of the text for the file and the last   *)
(* line, with the character counted in it, for the editor.                 *)
(***************************************************************************)
\* every edit starts and ends in a line that text has
InLinesOf(text, edits) ==
    \A i \in DOMAIN edits :
        /\ edits[i].range # <<>>
        /\ edits[i].range[1] < Len(blocks(text))
        /\ edits[i].range[3] < Len(blocks(text))

C39_LinesStep ==
    (AppliedToEditor(out') /\ RangesApart(out'[1].arg[2])
                           /\ InLinesOf(editor_text[out'[1].arg[1]], out'[1].arg[2])) =>
        editor_text'[out'[1].arg[1]] = AsFile(editor_text[out'[1].arg[1]], out'[1].arg[2])

C39_EditorAsFileWithinLines == [][C39_LinesStep]_vars

\* two edits that lie apart in the lines of the text were applied to an editor
C39_Witness ==
    /\ AppliedToEditor(out)
    /\ Len(out[1].arg[2]) = 2
    /\ RangesApart(out[1].arg[2])
    /\ out[1].arg[2][1].range[3] = 1
    /\ out[Len(out)] = [k |-> "return", value |-> 2]

====
